---- MODULE Spec2Model ----
(***************************************************************************)
(* A model of the trade lifecycle of jamesmarlowww/tradingbot: the         *)
(* position helpers of scripts/helpers (trade_utils, backtest_utils), the  *)
(* live loops built on them (MonitorBot, ProfitStreakBot), the backtesters *)
(* (Backtester, SmartBacktest) and the streak gate and the daily monitor   *)
(* of utils/bot_core.py.                                                   *)
(*                                                                         *)
(* Numbers.  The program computes with Python floats.  The model uses      *)
(* fixed-point integers: a price is a whole number of dollars, a price     *)
(* level (stop_loss, take_profit) is in thousandths of a dollar, a         *)
(* quantity is in thousandths of a unit, and a balance, a profit or a fee  *)
(* is in thousandths of a dollar ("mils").  A percentage is in per-mille   *)
(* (0.02 is 20).  A float division is an integer division, so a result is  *)
(* cut to the unit; the comparisons against price levels are exact.        *)
(*                                                                         *)
(* A Python None is the empty tuple <<>>, a float x in a field that may    *)
(* be None is <<x>>, and a Python tuple (a, b) is <<a, b>>.                *)
(***************************************************************************)
EXTENDS Integers, Sequences, FiniteSets, TLC

VARIABLES
    \* ---- MonitorBot / ProfitStreakBot / scripts Backtester (self.*) ----
    open_positions,   \* self.open_positions: list of position dicts, oldest first
    balance,          \* self.balance (mils)
    bq_trades,        \* the trades BigQuery accepted (db.add_trade), in order
    cycle,            \* number of cycles started; the cycle's timestamp
    cycle_time,       \* <<hour, minute>> of datetime.now() at the cycle's start
    idx,              \* position of the cycle's loop in the combination list (0: idle)
    last_call,        \* the last update_open_positions call: its arguments and result
    \* ---- utils/bot_core.py: BotCore's streak gate, and its configuration ----
    automation_state, \* self.automation_state
    now,              \* time.time(), in seconds
    polls,            \* number of check_streak_conditions calls so far
    last_check,       \* the last check_streak_conditions call: what it asked and returned
    daily_totals,     \* BigQuery: the sum of the closed trades' profit of each date
    EMERGENCY_OVERRIDE,         \* config/automation_config.py, fixed at start
    STREAK_AUTOMATION_ENABLED,  \* config/automation_config.py, fixed at start
    \* ---- scripts/bots/testTradingBot.py ----
    trade_history,    \* trade_history[symbol][strategy_name]: its 'trades' and 'profit_usd'
    interval,         \* run_bot(interval): seconds between two cycles
    last_sell,        \* the last SELL of execute_trades: the BUY it was booked against
    \* ---- scripts/backTestBot.py: Backtester (with open_positions, balance, idx);
    \* ---- scripts/helpers/smart_backtest.py uses trades, all_trades and candle too ----
    trades,           \* self.trades: the closed trades of the combination
    trades_to_upload, \* self.trades_to_upload
    all_trades,       \* all_trades of run_backtest
    candle,           \* rows of the combination's data processed so far
    errors,           \* the exceptions a loop caught and logged, in order
    \* ---- backTestBot.py: Backtester (its trade_history is the list trade_history) ----
    current_balance,  \* self.current_balance (mils)
    available_balance,\* self.available_balance (mils)
    peak_balance,     \* self.peak_balance (mils)
    max_drawdown,     \* self.max_drawdown (per mille)
    backtest_run,     \* run_backtest's locals: the strategy's index, i, position,
                      \* entry_price and position_size (strategy 0: no run in progress)
    \* ---- scripts/bots/profitStreakBot.py (with open_positions, balance, now) ----
    consecutive_profitable_days, \* self.consecutive_profitable_days
    profitable_combinations,     \* self.profitable_combinations
    last_daily_check,            \* self.last_daily_check: a date, None at start
    last_streak_check,           \* the last cycle's gate: whether it queried BigQuery,
                                 \* and streak_achieved
    \* ---- scripts/helpers/run_bot_system.py: monitor_and_control ----
    processes,                   \* the names of the bot processes that are running
    \* ---- calls of the helper functions on their own ----
    sizing,                      \* the last call of a position sizer: its inputs and outcome
    evaluation,                  \* the last stop-loss/take-profit check of one position
    \* ---- utils/bot_core.py: BotCore.run_daily_monitor (with cycle, idx, errors, now) ----
    trading_combinations,        \* the list of (symbol, strategy, timeframe) it is given
    klines,                      \* the candles Binance served: <<symbol, interval>> per fetch
    daily_summary,               \* the analysis records BigQuery took
    monitor_loop,                \* "running", or "stopped" once the while loop is left
    \* ---- monitorBot.py, profitStreakBot.py: the module-level shutdown flag ----
    shutdown_requested,          \* set by signal_handler
    \* ---- scripts/backTestBot.py: the data pass; the retried operations ----
    fetching,                    \* fetch_historical_data: combination, chunk, all_klines
    symbol_data,                 \* per combination: the frame, or None
    processed,                   \* combinations the second loop has handled
    last_operation,              \* the fetch, upload or query that finished last
    \* ---- monitorBot.py, profitStreakBot.py: the timing of the cycles ----
    clock,                       \* time.time() of the last cycle, seconds since midnight
    schedule_interval,           \* config['interval'] / trading_interval, seconds
    active_timeframes            \* the timeframes due at the last cycle

ledgerVars == <<open_positions, balance, bq_trades, cycle, cycle_time, idx, last_call>>

gateVars == <<automation_state, now, polls, last_check, daily_totals, EMERGENCY_OVERRIDE, STREAK_AUTOMATION_ENABLED>>

testVars == <<trade_history, interval, last_sell>>

backtestVars == <<trades, trades_to_upload, all_trades, candle, errors>>

riskVars == <<current_balance, available_balance, peak_balance, max_drawdown, backtest_run>>

streakVars == <<consecutive_profitable_days, profitable_combinations, last_daily_check, last_streak_check>>

controlVars == <<processes>>

callVars == <<sizing, evaluation>>

dailyVars == <<trading_combinations, klines, daily_summary, monitor_loop>>

signalVars == <<shutdown_requested>>

fetchVars == <<fetching, symbol_data, processed, last_operation>>

scheduleVars == <<clock, schedule_interval, active_timeframes>>

vars == <<ledgerVars, gateVars, testVars, backtestVars, riskVars, streakVars, controlVars, callVars, dailyVars, signalVars, fetchVars, scheduleVars>>

notLedgerVars == <<gateVars, testVars, backtestVars, riskVars, streakVars, controlVars, callVars, dailyVars, signalVars, fetchVars, scheduleVars>>

notGateVars == <<ledgerVars, testVars, backtestVars, riskVars, streakVars, controlVars, callVars, dailyVars, signalVars, fetchVars, scheduleVars>>

----------------------------------------------------------------------------
(* Bounds of the model. *)

\* Cycles a live loop runs.
MaxCycles == 2
\* Polls of the streak gate in a run.
MaxPolls == 2
\* Cycles of run_bot.
MaxBotCycles == 3
\* Rows of a combination's historical data.
MaxCandles == 4
\* Rows of the signals frame of one strategy run.
MaxSignals == 3
\* Positions a bot holds at once: the strategies signal no entry beyond it
\* (the live bots themselves have no cap).
MaxOpen == 4

(* Program constants. *)

\* initial_balance=10000, in dollars.
INITIAL_BALANCE == 10000
\* 0.02, the stop loss the bots pass to execute_trade and update_open_positions.
STOP_LOSS_PM == 20
\* 0.06, the take profit they pass.
TAKE_PROFIT_PM == 60
\* 0.05, "5% risk per trade".
MAX_POSITION_SIZE_PM == 50
\* fee_rate=0.001
FEE_RATE_PM == 1

\* The combinations a bot is given (BACKTEST_COMBOS is a long list of such triples).
Combos ==
    << <<"BTCUSDT", "RSIStrategy", "15m">>,
       <<"ETHUSDT", "RSIStrategy", "1h">> >>

\* Close prices the market-data collaborator may report for a symbol.
PriceOf(symbol) ==
    IF symbol = "BTCUSDT" THEN {100, 110} ELSE {50}

\* The last row of the strategy's signals: its 'position' (0 also stands for
\* an empty signals frame).
Signals == {-1, 0, 1}

\* Times of day, <<hour, minute>>, a cycle may start at.
CycleTimes == {<<0, 0>>, <<1, 15>>}

None == <<>>

----------------------------------------------------------------------------
(* scripts/helpers/trade_utils.py and scripts/helpers/backtest_utils.py *)

\* trade_utils.execute_trade: the position dict of a new trade.
execute_trade(symbol, trade_type, price, timestamp, strategy, position_size, timeframe, stop_loss_pct, take_profit_pct) ==
    [ symbol        |-> symbol,
      type          |-> trade_type,
      entry_price   |-> price,
      entry_time    |-> timestamp,
      position_size |-> position_size,
      strategy      |-> strategy,
      timeframe     |-> timeframe,
      stop_loss     |-> IF trade_type = "LONG"
                        THEN price * (1000 - stop_loss_pct)
                        ELSE price * (1000 + stop_loss_pct),
      take_profit   |-> IF trade_type = "LONG"
                        THEN price * (1000 + take_profit_pct)
                        ELSE price * (1000 - take_profit_pct),
      exit_price    |-> None,
      exit_time     |-> None,
      profit        |-> None,
      exit_reason   |-> "None",
      fees          |-> None ]   \* the key 'fees' is absent until a bot sets it

\* backtest_utils.calculate_position_size
calculate_position_size(price, symbol, bal, max_position_size) ==
    LET position_value == (bal * max_position_size) \div 1000
    IN  position_value \div price

\* backtest_utils.calculate_fee_adjusted_profit: the tuple (net_profit, total_fees)
calculate_fee_adjusted_profit(trade, fee_rate) ==
    LET entry_price   == trade.entry_price
        exit_price    == trade.exit_price[1]
        position_size == trade.position_size
        gross_profit  == IF trade.type = "LONG"
                         THEN (exit_price - entry_price) * position_size
                         ELSE (entry_price - exit_price) * position_size
        entry_fee     == (entry_price * position_size * fee_rate) \div 1000
        exit_fee      == (exit_price * position_size * fee_rate) \div 1000
        total_fees    == entry_fee + exit_fee
        net_profit    == gross_profit - total_fees
    IN  <<net_profit, total_fees>>

\* One iteration of update_open_positions' first loop: the position as the
\* loop leaves it (closed in place when a level is hit).
check_position(position, current_price, timestamp, stop_loss_pct, take_profit_pct) ==
    LET entry == position.entry_price
        closed(profit, reason) ==
            [position EXCEPT !.exit_price = <<current_price>>,
                             !.exit_time = <<timestamp>>,
                             !.profit = <<profit>>,
                             !.exit_reason = reason]
    IN  IF position.type = "LONG"
        THEN LET stop_loss   == entry * (1000 - stop_loss_pct)
                 take_profit == entry * (1000 + take_profit_pct)
                 profit      == (current_price - entry) * position.position_size
             IN  IF current_price * 1000 <= stop_loss THEN closed(profit, "stop_loss")
                 ELSE IF current_price * 1000 >= take_profit THEN closed(profit, "take_profit")
                 ELSE position
        ELSE LET stop_loss   == entry * (1000 + stop_loss_pct)
                 take_profit == entry * (1000 - take_profit_pct)
                 profit      == (entry - current_price) * position.position_size
             IN  IF current_price * 1000 >= stop_loss THEN closed(profit, "stop_loss")
                 ELSE IF current_price * 1000 <= take_profit THEN closed(profit, "take_profit")
                 ELSE position

\* The first loop over positions[i..], collecting closed_positions.
RECURSIVE scan_positions(_, _, _, _, _, _)
scan_positions(positions, i, current_price, timestamp, stop_loss_pct, take_profit_pct) ==
    IF i > Len(positions) THEN [positions |-> <<>>, closed |-> <<>>]
    ELSE LET p    == check_position(positions[i], current_price, timestamp,
                                    stop_loss_pct, take_profit_pct)
             rest == scan_positions(positions, i + 1, current_price, timestamp,
                                    stop_loss_pct, take_profit_pct)
         IN  IF p.exit_reason # "None"
             THEN [positions |-> rest.positions, closed |-> <<p>> \o rest.closed]
             ELSE [positions |-> <<p>> \o rest.positions, closed |-> rest.closed]

\* A variant that stops at the first position it closes.
RECURSIVE scan_first_only(_, _, _, _, _, _)
scan_first_only(positions, i, current_price, timestamp, stop_loss_pct, take_profit_pct) ==
    IF i > Len(positions) THEN [positions |-> <<>>, closed |-> <<>>]
    ELSE LET p == check_position(positions[i], current_price, timestamp,
                                 stop_loss_pct, take_profit_pct)
         IN  IF p.exit_reason # "None"
             THEN [positions |-> SubSeq(positions, i + 1, Len(positions)),
                   closed |-> <<p>>]
             ELSE LET rest == scan_first_only(positions, i + 1, current_price, timestamp,
                                              stop_loss_pct, take_profit_pct)
                  IN  [positions |-> <<p>> \o rest.positions, closed |-> rest.closed]

update_first_only(positions, current_price, timestamp, stop_loss_pct, take_profit_pct) ==
    scan_first_only(positions, 1, current_price, timestamp, stop_loss_pct, take_profit_pct)

\* A variant that decides with levels recomputed from a doubled take profit.
update_with_wider_take_profit(positions, current_price, timestamp, stop_loss_pct, take_profit_pct) ==
    scan_positions(positions, 1, current_price, timestamp, stop_loss_pct, take_profit_pct * 2)

\* trade_utils.update_open_positions: the list it leaves in place (positions)
\* and the list it returns (closed), both in list order.
update_open_positions(positions, current_price, timestamp, stop_loss_pct, take_profit_pct) ==
    scan_positions(positions, 1, current_price, timestamp, stop_loss_pct, take_profit_pct)

----------------------------------------------------------------------------
(* scripts/bots/monitorBot.py: MonitorBot in schedule-monitor mode *)

\* timeframe_checks.get(timeframe, True) of _run_monitoring_cycle
timeframe_checks(timeframe, current_time) ==
    LET current_hour == current_time[1]
        current_minute == current_time[2]
    IN  CASE timeframe = "15m" -> TRUE
          [] timeframe = "30m" -> current_minute % 30 = 0
          [] timeframe = "1h"  -> current_minute = 0
          [] timeframe = "2h"  -> current_minute = 0 /\ current_hour % 2 = 0
          [] timeframe = "4h"  -> current_minute = 0 /\ current_hour % 4 = 0
          [] timeframe = "1d"  -> current_minute = 0 /\ current_hour = 0
          [] OTHER -> TRUE

\* The dict _update_live_positions hands to save_trade_to_bigquery.
trade_data(closed_trade, run_name) ==
    [ entry_time    |-> closed_trade.entry_time,
      exit_time     |-> closed_trade.exit_time,
      strategy      |-> closed_trade.strategy,
      symbol        |-> closed_trade.symbol,
      timeframe     |-> closed_trade.timeframe,
      trade_type    |-> closed_trade.type,
      entry_price   |-> closed_trade.entry_price,
      exit_price    |-> closed_trade.exit_price,
      position_size |-> closed_trade.position_size,
      stop_loss     |-> closed_trade.stop_loss,
      take_profit   |-> closed_trade.take_profit,
      profit        |-> closed_trade.profit,
      fees          |-> closed_trade.fees,
      run_name      |-> run_name ]

\* The loop of _update_live_positions over closed_positions: each closed
\* trade gets its net profit and fees; saved says whether BigQuery takes the
\* trades of this call (save_trade_to_bigquery logs a failure and returns).
RECURSIVE process_closed(_, _, _, _, _, _)
process_closed(closed, i, bal, bq, saved, run_name) ==
    IF i > Len(closed) THEN [balance |-> bal, bq_trades |-> bq, closed |-> <<>>]
    ELSE LET pair == calculate_fee_adjusted_profit(closed[i], FEE_RATE_PM)
             t    == [closed[i] EXCEPT !.profit = <<pair[1]>>, !.fees = <<pair[2]>>]
             rest == process_closed(closed, i + 1, bal + pair[1],
                                    IF saved THEN Append(bq, trade_data(t, run_name))
                                    ELSE bq,
                                    saved, run_name)
         IN  [rest EXCEPT !.closed = <<t>> \o rest.closed]

\* MonitorBot._update_live_positions(row, timestamp)
update_live_positions(positions, bal, bq, close, timestamp, saved, run_name) ==
    LET r == update_open_positions(positions, close, timestamp,
                                   STOP_LOSS_PM, TAKE_PROFIT_PM)
        p == process_closed(r.closed, 1, bal, bq, saved, run_name)
    IN  [ open_positions |-> r.positions,   \* the closed ones are already removed
          balance        |-> p.balance,
          bq_trades      |-> p.bq_trades,
          closed         |-> p.closed ]

\* MonitorBot._execute_live_trade(symbol, strategy_name, timeframe, row, timestamp, signal)
execute_live_trade(positions, bal, combo, close, timestamp, position) ==
    LET trade_direction == IF position > 0 THEN "LONG" ELSE "SHORT"
        position_size   == calculate_position_size(close, combo[1], bal,
                                                   MAX_POSITION_SIZE_PM)
    IN  Append(positions,
               execute_trade(combo[1], trade_direction, close, timestamp, combo[2],
                             position_size, combo[3], STOP_LOSS_PM, TAKE_PROFIT_PM))

NoCall == [combo |-> None, price |-> 0, evaluated |-> <<>>, closed |-> <<>>]

LedgerInit ==
    /\ open_positions = <<>>
    /\ balance = INITIAL_BALANCE * 1000
    /\ bq_trades = <<>>
    /\ cycle = 0
    /\ cycle_time = <<0, 0>>
    /\ idx = 0
    /\ last_call = NoCall

\* run_schedule_monitor: the interval has passed; _run_monitoring_cycle starts.
MonitorCycleStart ==
    /\ idx = 0
    /\ cycle < MaxCycles
    /\ cycle' = cycle + 1
    /\ \E t \in CycleTimes : cycle_time' = t
    /\ idx' = 1
    /\ UNCHANGED <<open_positions, balance, bq_trades, last_call>>
    /\ UNCHANGED notLedgerVars

\* The body of the loop over the combinations, the same in
\* MonitorBot._run_monitoring_cycle and ProfitStreakBot._run_trading_cycle:
\* the signal of the combination first, then the update of the open positions.
TradingIteration(combo, run_name) ==
    \/ \* the timeframe is not due, or no data came back (df.empty)
       /\ UNCHANGED <<open_positions, balance, bq_trades, last_call>>
    \/ /\ timeframe_checks(combo[3], cycle_time)
       /\ \E close \in PriceOf(combo[1]), saved \in BOOLEAN,
             position \in IF Len(open_positions) < MaxOpen THEN Signals ELSE {0} :
            LET traded == IF position # 0
                          THEN execute_live_trade(open_positions, balance, combo,
                                                  close, cycle, position)
                          ELSE open_positions
            IN  IF traded # <<>>
                THEN LET u == update_live_positions(traded, balance, bq_trades,
                                                    close, cycle, saved, run_name)
                     IN  /\ open_positions' = u.open_positions
                         /\ balance' = u.balance
                         /\ bq_trades' = u.bq_trades
                         /\ last_call' = [combo |-> combo, price |-> close,
                                          evaluated |-> traded, closed |-> u.closed]
                ELSE UNCHANGED <<open_positions, balance, bq_trades, last_call>>

\* One iteration of _run_monitoring_cycle's loop over the combinations.
MonitorCombination ==
    /\ idx \in 1..Len(Combos)
    /\ idx' = idx + 1
    /\ UNCHANGED <<cycle, cycle_time>>
    /\ UNCHANGED notLedgerVars
    /\ TradingIteration(Combos[idx], "monitorBot")

\* The loop is over: the cycle's summary is logged.
MonitorCycleEnd ==
    /\ idx = Len(Combos) + 1
    /\ idx' = 0
    /\ UNCHANGED <<open_positions, balance, bq_trades, cycle, cycle_time, last_call>>
    /\ UNCHANGED notLedgerVars

MonitorNext == MonitorCycleStart \/ MonitorCombination \/ MonitorCycleEnd


----------------------------------------------------------------------------
(* utils/bot_core.py and config/automation_config.py: the streak gate *)

\* Number of consecutive positive days required to enable trading
REQUIRED_POSITIVE_DAYS == 5
\* Minimum profit for a day to count as positive (0.0)
MIN_PROFIT_THRESHOLD == 0
\* How often to check streak conditions, in seconds
AUTOMATION_CHECK_INTERVAL == 24 * 60 * 60
\* Maximum number of entries kept in streak_history
MAX_STREAK_HISTORY_DAYS == 30

\* Seconds in a day: date() of a time is its day number.
date(t) == t \div (24 * 60 * 60)

\* The sum of a day's trade profits (dollars) that BigQuery may hold.
DayTotals == {-5, 0, 10}

\* What db.get_trades does for one date: it gives the day's trades, whose
\* profits sum to total, or it raises.
QueryFailed == [raised |-> TRUE, total |-> 0]
QueryGave(total) == [raised |-> FALSE, total |-> total]

\* A variant that takes a day whose query failed for a day of profit.
calculate_daily_profit_optimistic(result) == IF result.raised THEN 1 ELSE result.total

\* BotCore.calculate_daily_profit: the day's total, 0.0 when the query fails.
calculate_daily_profit(result) == IF result.raised THEN 0 ELSE result.total

\* sum(1 for profit in daily_profits if profit > MIN_PROFIT_THRESHOLD)
RECURSIVE count_positive(_, _)
count_positive(daily_profits, i) ==
    IF i > Len(daily_profits) THEN 0
    ELSE (IF daily_profits[i] > MIN_PROFIT_THRESHOLD THEN 1 ELSE 0)
         + count_positive(daily_profits, i + 1)

\* The last n entries of a list: list[-n:]
last_entries(list, n) ==
    IF Len(list) > n THEN SubSeq(list, Len(list) - n + 1, Len(list)) ELSE list

\* A variant that counts a day at the threshold as positive.
should_enable_at_threshold(daily_profits) ==
    Cardinality({i \in DOMAIN daily_profits : daily_profits[i] >= MIN_PROFIT_THRESHOLD})
        >= REQUIRED_POSITIVE_DAYS

\* should_enable = positive_days >= REQUIRED_POSITIVE_DAYS
should_enable(daily_profits) ==
    count_positive(daily_profits, 1) >= REQUIRED_POSITIVE_DAYS

\* The negation of "current_time - last_check_time < AUTOMATION_CHECK_INTERVAL".
check_is_due(state, current_time) ==
    ~(current_time - state.last_check_time < AUTOMATION_CHECK_INTERVAL)

\* "if EMERGENCY_OVERRIDE:"
override_active(emergency_override) == emergency_override

\* BotCore.check_streak_conditions.  results[i] is what the query for the
\* date today - i gives.  The outcome: the new automation_state, the value
\* returned, the dates queried in order, and the profits computed.
check_streak_conditions(state, current_time, results, emergency_override, automation_enabled) ==
    IF override_active(emergency_override)
    THEN [ state   |-> [state EXCEPT !.trading_enabled = TRUE],
           result  |-> TRUE, queried |-> <<>>, daily_profits |-> <<>> ]
    ELSE IF ~automation_enabled
    THEN [ state |-> state, result |-> TRUE, queried |-> <<>>, daily_profits |-> <<>> ]
    ELSE IF ~check_is_due(state, current_time)
    THEN [ state |-> state, result |-> state.trading_enabled,
           queried |-> <<>>, daily_profits |-> <<>> ]
    ELSE LET today         == date(current_time)
             daily_profits == [i \in 1..REQUIRED_POSITIVE_DAYS |->
                                  calculate_daily_profit(results[i])]
             positive_days == count_positive(daily_profits, 1)
             history       == Append(state.streak_history,
                                     [date |-> today, streak |-> positive_days,
                                      daily_profits |-> daily_profits])
         IN  [ state   |-> [ trading_enabled |-> should_enable(daily_profits),
                             last_check_time |-> current_time,
                             current_streak  |-> positive_days,
                             streak_history  |-> last_entries(history, MAX_STREAK_HISTORY_DAYS) ],
               result  |-> should_enable(daily_profits),
               queried |-> [i \in 1..REQUIRED_POSITIVE_DAYS |-> today - i],
               daily_profits |-> daily_profits ]

\* The first day of a run, and the dates a run can ask BigQuery about.
FirstDay == 19675
Days == (FirstDay - REQUIRED_POSITIVE_DAYS)..(FirstDay + MaxPolls - 2)

\* Seconds between two polls: the hourly poll of run_bot_system, or a day.
PollGaps == {60 * 60, 24 * 60 * 60}

\* What the queries of one check give: the totals of the dates today - i, or
\* an exception for each while BigQuery is unreachable.
query_results(totals, current_time, db_up) ==
    [i \in 1..REQUIRED_POSITIVE_DAYS |->
        IF db_up THEN QueryGave(totals[date(current_time) - i]) ELSE QueryFailed]

NoCheck == [time |-> 0, before |-> <<>>, result |-> TRUE, queried |-> <<>>, daily_profits |-> <<>>, evaluation |-> <<>>]

\* The record of one call: when it was made, the automation_state it found,
\* what it returned, asked and computed, and the latest call so far that
\* evaluated the streak (asked BigQuery), with its time and its result.
check_record(previous, state, current_time, c) ==
    [ time |-> current_time, before |-> <<state>>, result |-> c.result,
      queried |-> c.queried, daily_profits |-> c.daily_profits,
      evaluation |-> IF c.queried # <<>>
                     THEN <<[time |-> current_time, result |-> c.result]>>
                     ELSE previous.evaluation ]

\* BotCore.__init__: the automation state of a new BotCore.
NewAutomationState ==
    [trading_enabled |-> TRUE, last_check_time |-> 0, current_streak |-> 0, streak_history |-> <<>>]

GateInit ==
    /\ automation_state = NewAutomationState
    /\ now = FirstDay * 24 * 60 * 60
    /\ polls = 0
    /\ last_check = NoCheck

\* config/automation_config.py as the repository ships it.
ConfigShipped ==
    /\ EMERGENCY_OVERRIDE = TRUE
    /\ STREAK_AUTOMATION_ENABLED = TRUE
    /\ daily_totals = [d \in Days |-> 10]

\* Any setting of the two switches, and any profit history (a history of
\* equal days where the switches leave the gate out of use).
ConfigAny ==
    /\ EMERGENCY_OVERRIDE \in BOOLEAN
    /\ STREAK_AUTOMATION_ENABLED \in BOOLEAN
    /\ daily_totals \in IF EMERGENCY_OVERRIDE \/ ~STREAK_AUTOMATION_ENABLED
                         THEN {[d \in Days |-> total] : total \in DayTotals}
                         ELSE [Days -> DayTotals]

\* One poll of a long-lived BotCore (bot_core.check_streak_conditions() in
\* the loop of a bot), and the wait until the next one.
GatePoll ==
    /\ polls < MaxPolls
    /\ \E db_up \in BOOLEAN, gap \in PollGaps :
         LET c == check_streak_conditions(automation_state, now,
                                          query_results(daily_totals, now, db_up),
                                          EMERGENCY_OVERRIDE, STREAK_AUTOMATION_ENABLED)
         IN  /\ automation_state' = c.state
             /\ last_check' = check_record(last_check, automation_state, now, c)
             /\ now' = now + gap
    /\ polls' = polls + 1
    /\ UNCHANGED <<daily_totals, EMERGENCY_OVERRIDE, STREAK_AUTOMATION_ENABLED>>
    /\ UNCHANGED notGateVars

GateNext == GatePoll

----------------------------------------------------------------------------
(* trading/execution.py and scripts/bots/testTradingBot.py *)

\* The (symbol, strategy, timeframe) the bot trades, its ticker prices and
\* the USDT balance of the exchange account (dollars).
BotCombo == <<"BTCUSDT", "RSIStrategy", "15m">>
TickerPrices == {100, 110}
UsdtBalances == {10000}

\* TradeExecutor.calculate_position_size, in thousandths of a unit;
\* risk_percent and stop_loss_percent are in tenths of a percent.
TradeExecutor_calculate_position_size(symbol, usdt_balance, price, risk_percent, stop_loss_percent) ==
    LET risk_amount      == usdt_balance * risk_percent       \* mils
        stop_loss_amount == price * stop_loss_percent         \* mils
        raw_quantity     == (risk_amount * 1000) \div stop_loss_amount
        max(a, b)        == IF a >= b THEN a ELSE b
    IN  IF symbol \in {"SOLUSDT"} THEN max(raw_quantity, 100)
        ELSE IF symbol \in {"ETHUSDT"} THEN max(raw_quantity, 10)
        ELSE IF symbol \in {"BTCUSDT"} THEN max(raw_quantity, 1)
        ELSE raw_quantity

\* The most recent BUY of a trades list (the reversed() loop), None if none.
RECURSIVE last_buy_of(_, _)
last_buy_of(trade_list, i) ==
    IF i = 0 THEN None
    ELSE IF trade_list[i].type = "BUY" THEN <<trade_list[i]>>
    ELSE last_buy_of(trade_list, i - 1)

\* One iteration of execute_trades' loop: the history of the key after the
\* signal 'position' at current_price; order says whether place_market_order
\* returned an order.  sell is what a SELL booked, None otherwise.
execute_trades(history, symbol, position, current_price, usdt_balance, order) ==
    LET quantity == TradeExecutor_calculate_position_size(symbol, usdt_balance,
                                                          current_price, 5, 20)
        trade(type) == [type |-> type, price |-> current_price, quantity |-> quantity,
                        value_usd |-> current_price * quantity]
    IN  IF position > 0 /\ order
        THEN [ history |-> [history EXCEPT !.trades = Append(@, trade("BUY"))],
               sell    |-> None ]
        ELSE IF position < 0 /\ order
        THEN LET last_buy == last_buy_of(history.trades, Len(history.trades))
                 booked   == last_buy # None /\ quantity <= last_buy[1].quantity
                 pnl      == IF booked
                             THEN (current_price - last_buy[1].price) * quantity
                             ELSE 0
             IN  [ history |-> [ trades     |-> Append(history.trades, trade("SELL")),
                                 profit_usd |-> history.profit_usd + pnl ],
                   sell    |-> <<[ index  |-> Len(history.trades) + 1,
                                   buy    |-> IF booked THEN last_buy ELSE None,
                                   pnl    |-> pnl ]>> ]
        ELSE [history |-> history, sell |-> None]

\* calculate_strategy_performance: the walk over the trades of one key, with
\* the open_positions list it pops from the front.
RECURSIVE calculate_strategy_performance(_, _, _, _)
calculate_strategy_performance(trade_list, i, open, realized_profit) ==
    IF i > Len(trade_list)
    THEN [open_positions |-> open, realized_profit |-> realized_profit]
    ELSE IF trade_list[i].type = "BUY"
    THEN calculate_strategy_performance(trade_list, i + 1, Append(open, trade_list[i]),
                                        realized_profit)
    ELSE IF open # <<>>
    THEN calculate_strategy_performance(trade_list, i + 1, Tail(open),
             realized_profit + (trade_list[i].price - Head(open).price) * trade_list[i].quantity)
    ELSE calculate_strategy_performance(trade_list, i + 1, open, realized_profit)

\* A variant of the gate of run_bot that trades whatever the gate says.
cycle_trades_ungated(trading_enabled, history, symbol, position, current_price, usdt_balance, order) ==
    execute_trades(history, symbol, position, current_price, usdt_balance, order)

\* run_bot: "if trading_enabled: ... execute_trades(...)", else analysis only.
cycle_trades(trading_enabled, history, symbol, position, current_price, usdt_balance, order) ==
    IF trading_enabled
    THEN execute_trades(history, symbol, position, current_price, usdt_balance, order)
    ELSE [history |-> history, sell |-> None]

\* The dates run_bot can ask about, and the profit histories it is run on:
\* days of one total up to a day, of another from then on.
BotDays == (FirstDay - REQUIRED_POSITIVE_DAYS)..(FirstDay + MaxBotCycles - 2)
BotHistories ==
    {[d \in BotDays |-> IF d < FirstDay THEN before ELSE after] :
        before \in {-5, 10}, after \in {-5, 10}}

TestInit ==
    /\ trade_history = [trades |-> <<>>, profit_usd |-> 0]
    /\ last_sell = None

\* The state of the bots that are not running.
TestIdle == TestInit /\ interval = 0

\* One cycle of run_bot's loop: the gate is polled, the market analysed, the
\* trades executed if enabled; then the bot sleeps.
RunBotCycle ==
    /\ cycle < MaxBotCycles
    /\ cycle' = cycle + 1
    /\ polls' = polls + 1
    /\ now' = now + interval
    /\ \E position \in Signals, current_price \in TickerPrices,
          usdt_balance \in UsdtBalances, order \in BOOLEAN :
         LET c == check_streak_conditions(automation_state, now,
                                          query_results(daily_totals, now, TRUE),
                                          EMERGENCY_OVERRIDE, STREAK_AUTOMATION_ENABLED)
             trading_enabled == c.result
             t == cycle_trades(trading_enabled, trade_history, BotCombo[1], position,
                               current_price, usdt_balance, order)
         IN  /\ automation_state' = c.state
             /\ last_check' = check_record(last_check, automation_state, now, c)
             /\ trade_history' = t.history
             /\ last_sell' = IF t.sell # None THEN t.sell ELSE last_sell
    /\ UNCHANGED <<daily_totals, EMERGENCY_OVERRIDE, STREAK_AUTOMATION_ENABLED, interval>>
    /\ UNCHANGED <<open_positions, balance, bq_trades, cycle_time, idx, last_call>>
    /\ UNCHANGED <<backtestVars, riskVars, streakVars, controlVars, callVars, dailyVars, signalVars, fetchVars, scheduleVars>>

TestBotNext == RunBotCycle

----------------------------------------------------------------------------
(* scripts/backTestBot.py: Backtester *)

\* True of a field that holds one number (a Python float), false of a tuple.
is_number(value) == Len(value) = 1

\* The dict _update_positions appends to trades_to_upload.
upload_data(closed_trade) ==
    [ entry_time    |-> closed_trade.entry_time,
      exit_time     |-> closed_trade.exit_time,
      strategy      |-> closed_trade.strategy,
      symbol        |-> closed_trade.symbol,
      timeframe     |-> closed_trade.timeframe,
      trade_type    |-> closed_trade.type,
      entry_price   |-> closed_trade.entry_price,
      position_size |-> closed_trade.position_size,
      stop_loss     |-> closed_trade.stop_loss,
      take_profit   |-> closed_trade.take_profit,
      profit        |-> closed_trade.profit,
      fees          |-> IF closed_trade.fees = None THEN <<0>> ELSE closed_trade.fees ]

\* "if len(self.trades_to_upload) >= 500" of _update_positions
BATCH_THRESHOLD == 500

\* The loop of Backtester._update_positions over closed_positions.  The
\* profit field receives what calculate_fee_adjusted_profit returns, the
\* tuple; "self.balance += closed_trade['profit']" raises TypeError on a
\* tuple, which ends the loop.  closed: the trades the loop reached.
\* At the threshold the batch is uploaded; the statement after the upload,
\* "total_trades_uploaded += ...", names a local of run_backtest that
\* _update_positions does not have (UnboundLocalError), so the line that
\* clears the buffer is not reached.
RECURSIVE update_positions_loop(_, _, _, _, _)
update_positions_loop(closed, i, bal, done, upload) ==
    IF i > Len(closed)
    THEN [balance |-> bal, trades |-> done, trades_to_upload |-> upload,
          closed |-> <<>>, raised |-> "None"]
    ELSE LET t == [closed[i] EXCEPT
                       !.profit = calculate_fee_adjusted_profit(closed[i], FEE_RATE_PM)]
         IN  IF ~is_number(t.profit)
             THEN [balance |-> bal, trades |-> done, trades_to_upload |-> upload,
                   closed |-> <<t>>, raised |-> "TypeError"]
             ELSE IF Len(upload) + 1 >= BATCH_THRESHOLD
             THEN [balance |-> bal + t.profit[1], trades |-> Append(done, t),
                   trades_to_upload |-> Append(upload, upload_data(t)),
                   closed |-> <<t>>, raised |-> "UnboundLocalError"]
             ELSE LET rest == update_positions_loop(closed, i + 1, bal + t.profit[1],
                                                    Append(done, t),
                                                    Append(upload, upload_data(t)))
                  IN  [rest EXCEPT !.closed = <<t>> \o rest.closed]

\* Backtester._update_positions(row, idx, db)
update_positions(positions, bal, done, upload, close, timestamp) ==
    LET r == update_open_positions(positions, close, timestamp,
                                   STOP_LOSS_PM, TAKE_PROFIT_PM)
        l == update_positions_loop(r.closed, 1, bal, done, upload)
    IN  [ open_positions   |-> r.positions,
          balance          |-> l.balance,
          trades           |-> l.trades,
          trades_to_upload |-> l.trades_to_upload,
          closed           |-> l.closed,
          raised           |-> l.raised ]

\* Backtester._process_signal(symbol, strategy_name, timeframe, row, idx, signal)
process_signal(positions, bal, combo, close, timestamp, position) ==
    Append(positions,
           execute_trade(combo[1], IF position > 0 THEN "LONG" ELSE "SHORT", close,
                         timestamp, combo[2],
                         calculate_position_size(close, combo[1], bal, MAX_POSITION_SIZE_PM),
                         combo[3], STOP_LOSS_PM, TAKE_PROFIT_PM))

BacktestInit ==
    /\ trades = <<>>
    /\ trades_to_upload = <<>>
    /\ all_trades = <<>>
    /\ candle = 0
    /\ errors = <<>>

\* run_backtest: the next combination starts; balance, trades and
\* open_positions are reset, or the combination has no data and is skipped.
BacktestCombinationStart ==
    /\ idx \in 0..(Len(Combos) - 1)
    /\ candle = 0
    /\ idx' = idx + 1
    /\ \/ /\ balance' = INITIAL_BALANCE * 1000
          /\ trades' = <<>>
          /\ open_positions' = <<>>
          /\ candle' = 1
          /\ UNCHANGED <<trades_to_upload, all_trades, errors>>
       \/ \* raw_data is None
          /\ balance' = INITIAL_BALANCE * 1000
          /\ trades' = <<>>
          /\ open_positions' = <<>>
          /\ UNCHANGED <<candle, trades_to_upload, all_trades, errors>>
    /\ UNCHANGED <<bq_trades, cycle, cycle_time, last_call>>
    /\ UNCHANGED <<gateVars, testVars, riskVars, streakVars, controlVars, callVars, dailyVars, signalVars, fetchVars, scheduleVars>>

\* _process_combination: one row of the data - its signal, then the update
\* of the open positions.  An exception ends the combination (the except of
\* run_backtest logs it and goes on to the next combination).
BacktestCandle ==
    /\ idx \in 1..Len(Combos)
    /\ candle \in 1..MaxCandles
    /\ \E close \in PriceOf(Combos[idx][1]),
          position \in IF Len(open_positions) < MaxOpen THEN Signals ELSE {0} :
         LET combo  == Combos[idx]
             traded == IF position # 0
                       THEN process_signal(open_positions, balance, combo, close,
                                           candle, position)
                       ELSE open_positions
         IN  IF traded # <<>>
             THEN LET u == update_positions(traded, balance, trades, trades_to_upload,
                                            close, candle)
                  IN  /\ open_positions' = u.open_positions
                      /\ balance' = u.balance
                      /\ trades' = u.trades
                      /\ trades_to_upload' = u.trades_to_upload
                      /\ last_call' = [combo |-> combo, price |-> close,
                                       evaluated |-> traded, closed |-> u.closed]
                      /\ IF u.raised # "None"
                         THEN /\ errors' = Append(errors, u.raised)
                              /\ candle' = 0
                         ELSE /\ errors' = errors
                              /\ candle' = candle + 1
             ELSE /\ candle' = candle + 1
                  /\ UNCHANGED <<open_positions, balance, trades, trades_to_upload,
                                 last_call, errors>>
    /\ UNCHANGED <<all_trades, idx, bq_trades, cycle, cycle_time>>
    /\ UNCHANGED <<gateVars, testVars, riskVars, streakVars, controlVars, callVars, dailyVars, signalVars, fetchVars, scheduleVars>>

\* run_backtest after _process_combination returned: the combination's trades
\* join all_trades and the remaining trades_to_upload are uploaded.
BacktestCombinationEnd ==
    /\ idx \in 1..Len(Combos)
    /\ candle = MaxCandles + 1
    /\ all_trades' = all_trades \o trades
    /\ trades_to_upload' = <<>>
    /\ candle' = 0
    /\ UNCHANGED <<trades, errors, ledgerVars, gateVars, testVars, riskVars, streakVars, controlVars, callVars, dailyVars, signalVars, fetchVars, scheduleVars>>

BacktestNext == BacktestCombinationStart \/ BacktestCandle \/ BacktestCombinationEnd

----------------------------------------------------------------------------
(* backTestBot.py: the Backtester with drawdown tracking *)

\* self.max_position_size = 0.1, "Maximum 10% of balance per position"
MAX_POSITION_PM == 100
\* "Minimum 1% of initial balance"
MIN_POSITION_PM == 10
\* self.max_drawdown_limit = 0.2, "Maximum 20% drawdown"
MAX_DRAWDOWN_LIMIT_PM == 200

\* self.strategies, and the close prices of the symbol's data.
Strategies == <<"RSIStrategy", "RSIDivergenceStrategy", "EnhancedRSIStrategy">>
ClosePrices == {10, 100}

\* Backtester.calculate_position_size(price, symbol), in thousandths of a unit.
Backtester_calculate_position_size(price, available, initial) ==
    LET max_position_value == (available * MAX_POSITION_PM) \div 1000
        size               == max_position_value \div price
        min_position_value == (initial * MIN_POSITION_PM) \div 1000
        min_position_size  == min_position_value \div price
    IN  IF size >= min_position_size THEN size ELSE min_position_size

\* (self.peak_balance - self.current_balance) / self.peak_balance, per mille
\* (balances are cut to the dollar first).
current_drawdown(peak, current) ==
    (((peak - current) \div 1000) * 1000) \div (peak \div 1000)

NoRun == [strategy |-> 0, i |-> 0, position |-> 0, entry_price |-> 0, position_size |-> 0]

RiskInit ==
    /\ current_balance = INITIAL_BALANCE * 1000
    /\ available_balance = INITIAL_BALANCE * 1000
    /\ peak_balance = INITIAL_BALANCE * 1000
    /\ max_drawdown = 0
    /\ backtest_run = NoRun

\* run_backtest: the next strategy of self.strategies is run on the symbol;
\* its signals frame is empty (the strategy is skipped) or not.
RunBacktestStrategy ==
    /\ backtest_run.i = 0
    /\ backtest_run.strategy < Len(Strategies)
    /\ \/ \* position = 0, entry_price = 0; the loop starts
          backtest_run' = [backtest_run EXCEPT !.strategy = @ + 1, !.i = 1,
                                               !.position = 0, !.entry_price = 0]
       \/ \* signals.empty: "continue"
          backtest_run' = [backtest_run EXCEPT !.strategy = @ + 1]
    /\ UNCHANGED <<current_balance, available_balance, peak_balance, max_drawdown>>
    /\ UNCHANGED <<trade_history, interval, last_sell>>
    /\ UNCHANGED <<ledgerVars, gateVars, backtestVars, streakVars, controlVars, callVars, dailyVars, signalVars, fetchVars, scheduleVars>>

\* One iteration of "for i in range(len(signals))": a buy signal with no
\* position enters a long position, a sell signal with a position exits it.
RunBacktestSignal ==
    /\ backtest_run.i \in 1..MaxSignals
    /\ \E signal \in Signals, price \in ClosePrices :
         IF backtest_run.position = 0 /\ signal > 0
         THEN LET size == Backtester_calculate_position_size(price, available_balance,
                                                             INITIAL_BALANCE * 1000)
              IN  /\ backtest_run' = [backtest_run EXCEPT !.i = @ + 1,
                                         !.position = IF size > 0 THEN 1 ELSE 0,
                                         !.entry_price = IF size > 0 THEN price ELSE 0,
                                         !.position_size = size]
                  /\ trade_history' =
                         IF size > 0
                         THEN Append(trade_history,
                                     [strategy |-> Strategies[backtest_run.strategy],
                                      entry_time |-> backtest_run.i, entry_price |-> price,
                                      position_size |-> size, type |-> "long",
                                      exit_price |-> None, profit |-> None])
                         ELSE trade_history
                  /\ UNCHANGED current_balance
         ELSE IF backtest_run.position = 1 /\ signal < 0
         THEN LET profit == (price - backtest_run.entry_price) * backtest_run.position_size
              IN  /\ trade_history' =
                         [trade_history EXCEPT ![Len(trade_history)] =
                             [@ EXCEPT !.exit_price = <<price>>, !.profit = <<profit>>]]
                  /\ backtest_run' = [backtest_run EXCEPT !.i = @ + 1, !.position = 0,
                                                         !.entry_price = 0]
                  /\ current_balance' = current_balance + profit
         ELSE /\ backtest_run' = [backtest_run EXCEPT !.i = @ + 1]
              /\ UNCHANGED <<trade_history, current_balance>>
    /\ UNCHANGED <<available_balance, peak_balance, max_drawdown>>
    /\ UNCHANGED <<interval, last_sell>>
    /\ UNCHANGED <<ledgerVars, gateVars, backtestVars, streakVars, controlVars, callVars, dailyVars, signalVars, fetchVars, scheduleVars>>

\* The signals of the strategy are used up.
RunBacktestStrategyEnd ==
    /\ backtest_run.i = MaxSignals + 1
    /\ backtest_run' = [backtest_run EXCEPT !.i = 0]
    /\ UNCHANGED <<current_balance, available_balance, peak_balance, max_drawdown>>
    /\ UNCHANGED <<trade_history, interval, last_sell>>
    /\ UNCHANGED <<ledgerVars, gateVars, backtestVars, streakVars, controlVars, callVars, dailyVars, signalVars, fetchVars, scheduleVars>>

RunBacktestNext == RunBacktestStrategy \/ RunBacktestSignal \/ RunBacktestStrategyEnd

----------------------------------------------------------------------------
(* scripts/bots/monitorBot.py, scripts/bots/profitStreakBot.py: shutdown *)

\* signal_handler(signum, frame), registered for SIGTERM and SIGINT by
\* monitorBot.py and profitStreakBot.py: it sets the flag and returns, so the
\* code it interrupted goes on.
SignalHandler ==
    /\ ~shutdown_requested
    /\ shutdown_requested' = TRUE
    /\ UNCHANGED <<ledgerVars, gateVars, testVars, backtestVars, riskVars, streakVars, controlVars, callVars, dailyVars, fetchVars, scheduleVars>>

SignalInit == shutdown_requested = FALSE

\* "while self.is_running and not shutdown_requested" of
\* run_profit_streak_trading and run_schedule_monitor (self.is_running stays
\* True: nothing calls stop()).
loop_goes_on(requested) == ~requested

----------------------------------------------------------------------------
(* scripts/bots/profitStreakBot.py: ProfitStreakBot *)

\* self.required_profitable_days
required_profitable_days == 5

\* What db.get_profitable_combinations may give: no combination, some, or an
\* exception.
ProfitableResults == {<<>>, <<Combos[1]>>, Combos}

\* ProfitStreakBot.check_profit_streak: result is the list the query gave,
\* None if it raised.  The fields it sets, and the value it returns.
check_profit_streak(result, combinations, days) ==
    IF result = None \/ result[1] = <<>>
    THEN [profitable_combinations |-> combinations,
          consecutive_profitable_days |-> days, returned |-> FALSE]
    ELSE [profitable_combinations |-> result[1],
          consecutive_profitable_days |-> Len(result[1]), returned |-> TRUE]

\* <<hour, minute>> of a time in seconds.
hour_minute(t) == <<(t % (24 * 60 * 60)) \div (60 * 60), (t % (60 * 60)) \div 60>>

StreakInit ==
    /\ consecutive_profitable_days = 0
    /\ profitable_combinations = <<>>
    /\ last_daily_check = None
    /\ last_streak_check = [queried |-> FALSE, streak_achieved |-> FALSE]

\* "if streak_achieved: ... self._run_trading_cycle(profitable_combos)"
runs_trading_cycle(streak_achieved) == streak_achieved

\* run_profit_streak_trading: trading_interval has passed and a cycle starts.
\* The streak is checked once per date; the trading cycle - the only place
\* where open positions are updated - runs if the streak is achieved.
ProfitStreakCycleStart ==
    /\ monitor_loop = "running"
    /\ loop_goes_on(shutdown_requested)
    /\ idx = 0
    /\ cycle < MaxCycles
    /\ cycle' = cycle + 1
    /\ \E gap \in {900, 24 * 60 * 60}, result \in {None} \cup {<<r>> : r \in ProfitableResults} :
         LET current_date == date(now + gap)
             daily == last_daily_check # <<current_date>>
             c == check_profit_streak(result, profitable_combinations,
                                      consecutive_profitable_days)
             streak_achieved == IF daily THEN c.returned
                                ELSE consecutive_profitable_days >= required_profitable_days
         IN  /\ now' = now + gap
             /\ cycle_time' = hour_minute(now + gap)
             /\ last_daily_check' = <<current_date>>
             /\ profitable_combinations' =
                    IF daily THEN c.profitable_combinations ELSE profitable_combinations
             /\ consecutive_profitable_days' =
                    IF daily THEN c.consecutive_profitable_days
                    ELSE consecutive_profitable_days
             /\ last_streak_check' = [queried |-> daily, streak_achieved |-> streak_achieved]
             /\ idx' = IF runs_trading_cycle(streak_achieved) THEN 1 ELSE 0
    /\ UNCHANGED <<open_positions, balance, bq_trades, last_call>>
    /\ UNCHANGED <<automation_state, polls, last_check, daily_totals,
                   EMERGENCY_OVERRIDE, STREAK_AUTOMATION_ENABLED>>
    /\ UNCHANGED <<testVars, backtestVars, riskVars, controlVars, callVars, dailyVars, signalVars, fetchVars, scheduleVars>>

\* One iteration of _run_trading_cycle's loop over the profitable combinations.
ProfitStreakCombination ==
    /\ idx \in 1..Len(profitable_combinations)
    /\ idx' = idx + 1
    /\ UNCHANGED <<cycle, cycle_time>>
    /\ UNCHANGED <<gateVars, testVars, backtestVars, riskVars, streakVars, controlVars, callVars, dailyVars, signalVars, fetchVars, scheduleVars>>
    /\ TradingIteration(profitable_combinations[idx], "profitStreakBot")

\* The loop is over.
ProfitStreakCycleEnd ==
    /\ idx = Len(profitable_combinations) + 1
    /\ idx' = 0
    /\ UNCHANGED <<open_positions, balance, bq_trades, cycle, cycle_time, last_call>>
    /\ UNCHANGED <<gateVars, testVars, backtestVars, riskVars, streakVars, controlVars, callVars, dailyVars, signalVars, fetchVars, scheduleVars>>

\* The while condition is false between two cycles: the loop is left and
\* run_profit_streak_trading returns.
ProfitStreakExit ==
    /\ monitor_loop = "running"
    /\ idx = 0
    /\ ~loop_goes_on(shutdown_requested)
    /\ monitor_loop' = "stopped"
    /\ UNCHANGED <<trading_combinations, klines, daily_summary>>
    /\ UNCHANGED <<ledgerVars, gateVars, testVars, backtestVars, riskVars, streakVars, controlVars, callVars, signalVars, fetchVars, scheduleVars>>

ProfitStreakNext ==
    \/ ProfitStreakCycleStart
    \/ ProfitStreakCombination
    \/ ProfitStreakCycleEnd
    \/ ProfitStreakExit
    \/ SignalHandler

----------------------------------------------------------------------------
(* scripts/helpers/run_bot_system.py: the controller *)

\* The seconds monitor_and_control sleeps between two system checks.
SYSTEM_CHECK_SLEEP == 3600

ControlInit == processes = {}

\* run_bot_system.check_streak_conditions: a BotCore is constructed for the
\* call and its check_streak_conditions is called; False if either raises
\* (constructed is false when BotCore() raises).
system_check_streak_conditions(constructed, current_time, results, emergency_override, automation_enabled) ==
    IF constructed
    THEN check_streak_conditions(NewAutomationState, current_time, results,
                                 emergency_override, automation_enabled)
    ELSE [ state |-> NewAutomationState, result |-> FALSE,
           queried |-> <<>>, daily_profits |-> <<>> ]

\* One turn of monitor_and_control's loop: the streak conditions are
\* checked, the test bot is started (run_test_bot, taken to succeed) if
\* trading is enabled and it is not running, stopped if trading is disabled;
\* then the controller sleeps.
ControlPoll ==
    /\ polls < MaxPolls
    /\ polls' = polls + 1
    /\ \E constructed \in BOOLEAN, db_up \in BOOLEAN :
         LET c == system_check_streak_conditions(constructed, now,
                      query_results(daily_totals, now, db_up),
                      EMERGENCY_OVERRIDE, STREAK_AUTOMATION_ENABLED)
             trading_enabled == c.result
         IN  /\ automation_state' = c.state
             /\ last_check' = check_record(last_check, NewAutomationState, now, c)
             /\ processes' = IF trading_enabled
                             THEN processes \cup {"test_bot"}
                             ELSE processes \ {"test_bot"}
    /\ now' = now + SYSTEM_CHECK_SLEEP
    /\ UNCHANGED <<daily_totals, EMERGENCY_OVERRIDE, STREAK_AUTOMATION_ENABLED>>
    /\ UNCHANGED <<ledgerVars, testVars, backtestVars, riskVars, streakVars, callVars, dailyVars, signalVars, fetchVars, scheduleVars>>

\* The test bot's process ends by itself; the controller finds it finished.
TestBotExits ==
    /\ "test_bot" \in processes
    /\ processes' = processes \ {"test_bot"}
    /\ UNCHANGED <<ledgerVars, gateVars, testVars, backtestVars, riskVars, streakVars, callVars, dailyVars, signalVars, fetchVars, scheduleVars>>

ControlNext == ControlPoll \/ TestBotExits

----------------------------------------------------------------------------
(* backTestBot.py, scripts/bots/testTradingBot.py: update_drawdown *)

\* The balances, in thousands of dollars, an update may leave the account at.
MinBalance == 5
MaxBalance == 14
Balances == {k * 1000 * 1000 : k \in MinBalance..MaxBalance}

\* A variant that keeps the drawdown of the latest update.
update_drawdown_latest(peak, maximum, current) ==
    LET new_peak == IF current > peak THEN current ELSE peak
        drawdown == current_drawdown(new_peak, current)
    IN  [ peak_balance |-> new_peak,
          max_drawdown |-> drawdown,
          returned     |-> drawdown <= MAX_DRAWDOWN_LIMIT_PM ]

\* update_drawdown(): the new peak_balance and max_drawdown, and the value
\* returned (whether the drawdown is within max_drawdown_limit).
update_drawdown(peak, maximum, current) ==
    LET new_peak == IF current > peak THEN current ELSE peak
        drawdown == current_drawdown(new_peak, current)
    IN  [ peak_balance |-> new_peak,
          max_drawdown |-> IF maximum >= drawdown THEN maximum ELSE drawdown,
          returned     |-> drawdown <= MAX_DRAWDOWN_LIMIT_PM ]

\* The balance changes and update_drawdown() is called.
BalanceUpdate ==
    /\ \E new_balance \in Balances :
         LET u == update_drawdown(peak_balance, max_drawdown, new_balance)
         IN  /\ current_balance' = new_balance
             /\ peak_balance' = u.peak_balance
             /\ max_drawdown' = u.max_drawdown
    /\ UNCHANGED <<available_balance, backtest_run>>
    /\ UNCHANGED <<ledgerVars, gateVars, testVars, backtestVars, streakVars, controlVars, callVars, dailyVars, signalVars, fetchVars, scheduleVars>>

DrawdownNext == BalanceUpdate

----------------------------------------------------------------------------
(* The position sizers, called on their own *)

\* The three sizers: backtest_utils.calculate_position_size (MonitorBot and
\* ProfitStreakBot call it), Backtester.calculate_position_size, and
\* TradeExecutor.calculate_position_size (the test bot calls it).
Sizers == {"backtest_utils", "Backtester", "TradeExecutor"}

\* Symbols, prices (dollars) and balances (dollars) a sizer may be called with.
SizerSymbols == {"SOLUSDT", "ETHUSDT", "BTCUSDT", "ADAUSDT"}
SizerPrices == {-100, 0, 10, 100, 1000}
SizerBalances == {-1000, 0, 100, 1000, 10000}

\* The outcome of a call: the quantity returned (thousandths of a unit), or
\* the exception that left the function.
Returned(quantity) == [raised |-> "", quantity |-> <<quantity>>]
Raised(exception) == [raised |-> exception, quantity |-> None]

\* A call of one of the sizers with its default parameters.  A division by
\* a zero price raises ZeroDivisionError; Backtester.calculate_position_size
\* catches every exception and returns 0.
size_position(sizer, symbol, price, bal) ==
    CASE sizer = "backtest_utils" ->
            IF price = 0 THEN Raised("ZeroDivisionError")
            ELSE Returned(calculate_position_size(price, symbol, bal * 1000,
                                                  MAX_POSITION_SIZE_PM))
      [] sizer = "Backtester" ->
            IF price = 0 THEN Returned(0)
            ELSE Returned(Backtester_calculate_position_size(price, bal * 1000,
                                                             INITIAL_BALANCE * 1000))
      [] sizer = "TradeExecutor" ->
            IF price = 0 THEN Raised("ZeroDivisionError")
            ELSE Returned(TradeExecutor_calculate_position_size(symbol, bal, price, 10, 20))

NoSizing == [sizer |-> "", symbol |-> "", price |-> 0, balance |-> 0, outcome |-> Raised("")]

NoEvaluation == [function |-> "", position |-> None, current_price |-> 0, stop_loss_pct |-> 0, take_profit_pct |-> 0, outcome |-> None]

CallInit ==
    /\ sizing = NoSizing
    /\ evaluation = NoEvaluation

\* A sizer is called.
SizePosition ==
    /\ \E sizer \in Sizers, symbol \in SizerSymbols, price \in SizerPrices,
          bal \in SizerBalances :
         sizing' = [sizer |-> sizer, symbol |-> symbol, price |-> price, balance |-> bal,
                    outcome |-> size_position(sizer, symbol, price, bal)]
    /\ UNCHANGED evaluation
    /\ UNCHANGED <<ledgerVars, gateVars, testVars, backtestVars, riskVars, streakVars, controlVars, dailyVars, signalVars, fetchVars, scheduleVars>>

SizerNext == SizePosition

----------------------------------------------------------------------------
(* The stop-loss / take-profit checks, called on one position *)

\* backtest_utils.check_stop_loss_take_profit's defaults, 0.015 and 0.045
DEFAULT_STOP_LOSS_PM == 15
DEFAULT_TAKE_PROFIT_PM == 45

\* Entry prices and current prices (dollars), on and around the levels.
EntryPrices == {100, 200}
RiskPrices ==
    {93, 94, 95, 97, 98, 99, 100, 101, 102, 103, 105, 106, 107,
     190, 191, 192, 196, 197, 198, 200, 202, 203, 204, 208, 209, 210}

\* A variant whose long stop loss needs the price strictly below the level.
check_stop_loss_take_profit_strict(position, current_price, stop_loss_pct, take_profit_pct) ==
    LET entry_price == position.entry_price
    IN  IF position.type = "LONG"
        THEN LET stop_loss   == entry_price * (1000 - stop_loss_pct)
                 take_profit == entry_price * (1000 + take_profit_pct)
             IN  <<current_price * 1000 < stop_loss, current_price * 1000 >= take_profit>>
        ELSE LET stop_loss   == entry_price * (1000 + stop_loss_pct)
                 take_profit == entry_price * (1000 - take_profit_pct)
             IN  <<current_price * 1000 >= stop_loss, current_price * 1000 <= take_profit>>

\* backtest_utils.check_stop_loss_take_profit: the pair (stop loss hit,
\* take profit hit); levels in thousandths of a dollar.
check_stop_loss_take_profit(position, current_price, stop_loss_pct, take_profit_pct) ==
    LET entry_price == position.entry_price
    IN  IF position.type = "LONG"
        THEN LET stop_loss   == entry_price * (1000 - stop_loss_pct)
                 take_profit == entry_price * (1000 + take_profit_pct)
             IN  <<current_price * 1000 <= stop_loss, current_price * 1000 >= take_profit>>
        ELSE LET stop_loss   == entry_price * (1000 + stop_loss_pct)
                 take_profit == entry_price * (1000 - take_profit_pct)
             IN  <<current_price * 1000 >= stop_loss, current_price * 1000 <= take_profit>>

\* Backtester.check_stop_loss_take_profit (backTestBot.py), whose positions
\* are all bought: pnl_pct = (current_price - entry_price) / entry_price is
\* compared with -stop_loss_pct first, then with take_profit_pct (both
\* sides multiplied by the positive entry price).
Backtester_check_stop_loss_take_profit(position, current_price, stop_loss_pct, take_profit_pct) ==
    LET entry_price == position.entry_price
        pnl         == (current_price - entry_price) * 1000
    IN  IF pnl <= -(stop_loss_pct * entry_price) THEN <<TRUE, "stop_loss">>
        ELSE IF pnl >= take_profit_pct * entry_price THEN <<TRUE, "take_profit">>
        ELSE <<FALSE, "None">>

\* One check of one open position by one of the three functions; the
\* outcome says whether the stop loss and whether the take profit closes it.
check_with(function, position, current_price) ==
    CASE function = "backtest_utils" ->
            LET r == check_stop_loss_take_profit(position, current_price,
                         DEFAULT_STOP_LOSS_PM, DEFAULT_TAKE_PROFIT_PM)
            IN  [function |-> function, position |-> <<position>>,
                 current_price |-> current_price,
                 stop_loss_pct |-> DEFAULT_STOP_LOSS_PM,
                 take_profit_pct |-> DEFAULT_TAKE_PROFIT_PM,
                 outcome |-> <<[stop_loss |-> r[1], take_profit |-> r[2]]>>]
      [] function = "trade_utils" ->
            LET r == check_position(position, current_price, 1,
                                    STOP_LOSS_PM, TAKE_PROFIT_PM)
            IN  [function |-> function, position |-> <<position>>,
                 current_price |-> current_price,
                 stop_loss_pct |-> STOP_LOSS_PM, take_profit_pct |-> TAKE_PROFIT_PM,
                 outcome |-> <<[stop_loss |-> r.exit_reason = "stop_loss",
                                take_profit |-> r.exit_reason = "take_profit"]>>]
      [] function = "Backtester" ->
            LET r == Backtester_check_stop_loss_take_profit(position, current_price,
                                                            STOP_LOSS_PM, TAKE_PROFIT_PM)
            IN  [function |-> function, position |-> <<position>>,
                 current_price |-> current_price,
                 stop_loss_pct |-> STOP_LOSS_PM, take_profit_pct |-> TAKE_PROFIT_PM,
                 outcome |-> <<[stop_loss |-> r[1] /\ r[2] = "stop_loss",
                                take_profit |-> r[1] /\ r[2] = "take_profit"]>>]

\* A position opened at entry_price is checked at current_price.
CheckPosition ==
    /\ \E function \in {"backtest_utils", "trade_utils", "Backtester"},
          trade_type \in {"LONG", "SHORT"},
          entry_price \in EntryPrices, current_price \in RiskPrices :
         /\ function = "Backtester" => trade_type = "LONG"
         /\ evaluation' =
                check_with(function,
                           execute_trade("BTCUSDT", trade_type, entry_price, 0, "RSIStrategy",
                                         1000, "15m", STOP_LOSS_PM, TAKE_PROFIT_PM),
                           current_price)
    /\ UNCHANGED sizing
    /\ UNCHANGED <<ledgerVars, gateVars, testVars, backtestVars, riskVars, streakVars, controlVars, dailyVars, signalVars, fetchVars, scheduleVars>>

RiskNext == CheckPosition

----------------------------------------------------------------------------
(* scripts/helpers/smart_backtest.py: SmartBacktest *)

\* Rows of the frame run_smart_execution walks.
MaxRows == 4

\* "len(open_positions) < 3": "Max 3 concurrent positions".
MAX_CONCURRENT_POSITIONS == 3
\* min_profit_pct=0.008 of the call in run_smart_execution.
MIN_PROFIT_PM == 8

\* self.target_combinations: "Most profitable combinations from previous
\* results", of which the model runs one.
target_combinations == << <<"BTCUSDT", "EnhancedRSIStrategy", "30m">> >>

\* Close prices of the rows of a frame.
SmartCloses == {97, 100, 101, 107}

\* backtest_utils.should_close_trade_for_minimum_profit
should_close_trade_for_minimum_profit(position, current_price, min_profit_pct) ==
    LET entry_price == position.entry_price
    IN  IF position.type = "LONG"
        THEN (current_price - entry_price) * 1000 >= min_profit_pct * entry_price
        ELSE (entry_price - current_price) * 1000 >= min_profit_pct * entry_price

\* SmartBacktest.check_stop_loss_take_profit: (stop_loss_hit, take_profit_hit),
\* decided with the levels stored in the position.
SmartBacktest_check_stop_loss_take_profit(position, current_price) ==
    IF position.type = "LONG"
    THEN <<current_price * 1000 <= position.stop_loss,
           current_price * 1000 >= position.take_profit>>
    ELSE <<current_price * 1000 >= position.stop_loss,
           current_price * 1000 <= position.take_profit>>

\* SmartBacktest.close_position: the closed trade.
close_position(position, exit_price, exit_time, symbol, strategy_name, timeframe) ==
    LET trade_type == position.type
        pair == calculate_fee_adjusted_profit(
                    [entry_price |-> position.entry_price, exit_price |-> <<exit_price>>,
                     position_size |-> position.position_size, type |-> trade_type],
                    FEE_RATE_PM)
        exit_reason ==
            IF exit_price * 1000 <= position.stop_loss /\ trade_type = "LONG"
            THEN "stop_loss"
            ELSE IF exit_price * 1000 >= position.stop_loss /\ trade_type = "SHORT"
            THEN "stop_loss"
            ELSE IF exit_price * 1000 >= position.take_profit /\ trade_type = "LONG"
            THEN "take_profit"
            ELSE IF exit_price * 1000 <= position.take_profit /\ trade_type = "SHORT"
            THEN "take_profit"
            ELSE "manual"
    IN  [ symbol        |-> symbol,
          type          |-> trade_type,
          entry_price   |-> position.entry_price,
          entry_time    |-> position.entry_time,
          position_size |-> position.position_size,
          strategy      |-> strategy_name,
          timeframe     |-> timeframe,
          stop_loss     |-> position.stop_loss,
          take_profit   |-> position.take_profit,
          exit_price    |-> exit_price,
          exit_time     |-> exit_time,
          profit        |-> pair[1],
          fees          |-> pair[2],
          exit_reason   |-> exit_reason,
          run_name      |-> "smartBacktest" ]

\* The position dict run_smart_execution creates for an entry signal.
smart_position(symbol, strategy_name, timeframe, signal, current_price, current_time, bal) ==
    LET position_size == ((bal * 50) \div 1000) \div current_price
        trade_type    == IF signal > 0 THEN "LONG" ELSE "SHORT"
    IN  [ symbol        |-> symbol,
          type          |-> trade_type,
          entry_price   |-> current_price,
          entry_time    |-> current_time,
          position_size |-> position_size,
          stop_loss     |-> IF trade_type = "LONG" THEN current_price * 980
                            ELSE current_price * 1020,
          take_profit   |-> IF trade_type = "LONG" THEN current_price * 1060
                            ELSE current_price * 940,
          strategy      |-> strategy_name,
          timeframe     |-> timeframe ]

\* The condition of the row loop that puts a position in positions_to_close:
\* its three flags.
exit_flags(position, current_price) ==
    LET pair == SmartBacktest_check_stop_loss_take_profit(position, current_price)
    IN  [ stop_loss_hit   |-> pair[1],
          take_profit_hit |-> pair[2],
          min_profit_hit  |-> should_close_trade_for_minimum_profit(
                                  position, current_price, MIN_PROFIT_PM) ]

\* "balance += closed_trade['profit']" over the trades closed[i..].
RECURSIVE profit_of(_, _)
profit_of(closed, i) ==
    IF i > Len(closed) THEN 0 ELSE closed[i].profit + profit_of(closed, i + 1)

\* One row of run_smart_execution: the exits of the open positions, then the
\* entry of the row's signal.
smart_row(positions, bal, combo, current_price, current_time, signal) ==
    LET closes(pos) == LET f == exit_flags(pos, current_price)
                       IN  f.stop_loss_hit \/ f.take_profit_hit \/ f.min_profit_hit
        stays(pos)  == ~closes(pos)
        positions_to_close == SelectSeq(positions, closes)
        closed == [k \in DOMAIN positions_to_close |->
                       close_position(positions_to_close[k], current_price, current_time,
                                      combo[1], combo[2], combo[3])]
        remaining == SelectSeq(positions, stays)
        new_balance == bal + profit_of(closed, 1)
        enters == signal # 0 /\ Len(remaining) < MAX_CONCURRENT_POSITIONS
    IN  [ open_positions |-> IF enters
                             THEN Append(remaining,
                                         smart_position(combo[1], combo[2], combo[3], signal,
                                                        current_price, current_time,
                                                        new_balance))
                             ELSE remaining,
          balance  |-> new_balance,
          closed   |-> closed,
          flags    |-> [k \in DOMAIN positions_to_close |->
                            exit_flags(positions_to_close[k], current_price)],
          entered  |-> enters ]

\* run_smart_backtest: the next combination; its frame or its signals may be
\* empty, and then the combination is skipped.  run_smart_execution starts
\* with no trades, no open positions and a balance of 10000.
SmartCombinationStart ==
    /\ idx \in 0..(Len(target_combinations) - 1)
    /\ candle = 0
    /\ idx' = idx + 1
    /\ \/ /\ trades' = <<>>
          /\ open_positions' = <<>>
          /\ balance' = 10000 * 1000
          /\ candle' = 1
       \/ UNCHANGED <<trades, open_positions, balance, candle>>
    /\ UNCHANGED <<trades_to_upload, all_trades, errors>>
    /\ UNCHANGED <<bq_trades, cycle, cycle_time, last_call>>
    /\ UNCHANGED <<gateVars, testVars, riskVars, streakVars, controlVars, callVars, dailyVars, signalVars, fetchVars, scheduleVars>>

\* run_smart_execution: row i of the frame.
SmartRow ==
    /\ idx \in 1..Len(target_combinations)
    /\ candle \in 1..MaxRows
    /\ \E current_price \in SmartCloses, signal \in Signals :
         LET r == smart_row(open_positions, balance, target_combinations[idx], current_price,
                            candle, signal)
         IN  /\ open_positions' = r.open_positions
             /\ balance' = r.balance
             /\ trades' = trades \o r.closed
             /\ last_call' = [combo |-> target_combinations[idx], price |-> current_price,
                              evaluated |-> open_positions, closed |-> r.closed,
                              at |-> "row", flags |-> r.flags,
                              signal |-> signal, entered |-> r.entered]
    /\ candle' = candle + 1
    /\ UNCHANGED <<trades_to_upload, all_trades, errors>>
    /\ UNCHANGED <<bq_trades, cycle, cycle_time, idx>>
    /\ UNCHANGED <<gateVars, testVars, riskVars, streakVars, controlVars, callVars, dailyVars, signalVars, fetchVars, scheduleVars>>

\* run_smart_execution after the last row: "Close any remaining positions at
\* the end", at the last row's close and time; then run_smart_backtest adds
\* the returned trades to all_trades and uploads them (uploaded: whether
\* BigQuery took them; upload_trades_to_bigquery logs a failure).
SmartExecutionEnd ==
    /\ idx \in 1..Len(target_combinations)
    /\ candle = MaxRows + 1
    /\ \E uploaded \in BOOLEAN :
         LET closed == [k \in DOMAIN open_positions |->
                            close_position(open_positions[k], last_call.price, MaxRows,
                                           target_combinations[idx][1], target_combinations[idx][2], target_combinations[idx][3])]
             returned == trades \o closed
         IN  /\ trades' = returned
             /\ all_trades' = all_trades \o returned
             /\ bq_trades' = IF uploaded THEN bq_trades \o returned ELSE bq_trades
             /\ last_call' = [combo |-> target_combinations[idx], price |-> last_call.price,
                              evaluated |-> open_positions, closed |-> closed,
                              at |-> "end",
                              flags |-> [k \in DOMAIN open_positions |->
                                             exit_flags(open_positions[k], last_call.price)],
                              signal |-> 0, entered |-> FALSE]
    /\ candle' = 0
    /\ UNCHANGED <<open_positions, balance, cycle, cycle_time, idx>>
    /\ UNCHANGED <<trades_to_upload, errors>>
    /\ UNCHANGED <<gateVars, testVars, riskVars, streakVars, controlVars, callVars, dailyVars, signalVars, fetchVars, scheduleVars>>

SmartNext == SmartCombinationStart \/ SmartRow \/ SmartExecutionEnd

----------------------------------------------------------------------------
(* utils/bot_core.py: BotCore.run_daily_monitor *)

\* monitor_interval: int = 3600
MONITOR_INTERVAL == 3600
\* "time.sleep(60)  # Wait 1 minute before retrying"
RETRY_SLEEP == 60

\* The keys of strategy_map in get_strategy_instance.
strategy_map ==
    {"RSIStrategy", "EnhancedRSIStrategy", "RSIDivergenceStrategy",
     "MovingAverageCrossover", "BollingerBandStrategy", "MomentumStrategy",
     "TrendFollowingStrategy", "LiveReactiveRSIStrategy", "VWAPStrategy",
     "PriceActionBreakoutStrategy"}

\* The keys of interval_map in fetch_market_data; Client.KLINE_INTERVAL_* of
\* a key is the key itself ('15m' is KLINE_INTERVAL_15MINUTE).
interval_map_keys ==
    {"1m", "5m", "15m", "30m", "1h", "2h", "4h", "6h", "8h", "12h", "1d", "3d",
     "1w", "1M"}

\* "interval_map.get(timeframe, Client.KLINE_INTERVAL_1HOUR)"
interval_of(timeframe) ==
    IF timeframe \in interval_map_keys THEN timeframe ELSE "1h"

\* BotCore.get_strategy_instance: the strategy, or the ValueError it raises.
get_strategy_instance(strategy_name) ==
    IF strategy_name \notin strategy_map
    THEN [raised |-> "ValueError", strategy |-> None]
    ELSE [raised |-> "", strategy |-> <<strategy_name>>]

\* BotCore.generate_signals on a frame with data: the 'position' of the last
\* row of the signals (position is what the strategy gives), or the empty
\* frame and the error it logs when get_strategy_instance raises.
generate_signals(strategy_name, position) ==
    LET s == get_strategy_instance(strategy_name)
    IN  IF s.raised # ""
        THEN [empty |-> TRUE, position |-> 0,
              logged |-> <<[origin |-> "generate_signals", error |-> s.raised]>>]
        ELSE [empty |-> FALSE, position |-> position, logged |-> <<>>]

\* The trading_combinations a caller may hand to run_daily_monitor: a valid
\* list, one with a strategy name that strategy_map does not have, and one
\* with a timeframe that interval_map does not have.
Configurations ==
    { << <<"BTCUSDT", "RSIStrategy", "15m">>, <<"ETHUSDT", "RSIStrategy", "1h">> >>,
      << <<"BTCUSDT", "RSIStrategyV2", "15m">>, <<"ETHUSDT", "RSIStrategy", "1h">> >>,
      << <<"BTCUSDT", "RSIStrategy", "45m">>, <<"ETHUSDT", "RSIStrategy", "1h">> >> }

\* A variant that gives up the run at the first failed combination.
stop_after_error(i) == [idx |-> 0, monitor_loop |-> "stopped"]

\* "except Exception as e: logger.error(...); continue" of the loop over the
\* combinations: where the loop stands after combination i failed.
continue_after_error(i) == [idx |-> i + 1, monitor_loop |-> "running"]

DailyIdle ==
    /\ trading_combinations = Combos
    /\ klines = <<>>
    /\ daily_summary = <<>>
    /\ monitor_loop = "running"

DailyConfigured ==
    /\ trading_combinations \in Configurations
    /\ klines = <<>>
    /\ daily_summary = <<>>
    /\ monitor_loop = "running"

\* The head of "while True": the streak gate is asked, then the loop over
\* the combinations starts.
DailyMonitorCycleStart ==
    /\ monitor_loop = "running"
    /\ idx = 0
    /\ cycle < MaxCycles
    /\ cycle' = cycle + 1
    /\ idx' = 1
    /\ \E db_up \in BOOLEAN :
         LET c == check_streak_conditions(automation_state, now,
                                          query_results(daily_totals, now, db_up),
                                          EMERGENCY_OVERRIDE, STREAK_AUTOMATION_ENABLED)
         IN  /\ automation_state' = c.state
             /\ last_check' = check_record(last_check, automation_state, now, c)
    /\ polls' = polls + 1
    /\ UNCHANGED <<now, daily_totals, EMERGENCY_OVERRIDE, STREAK_AUTOMATION_ENABLED>>
    /\ UNCHANGED <<open_positions, balance, bq_trades, cycle_time, last_call>>
    /\ UNCHANGED <<testVars, backtestVars, riskVars, streakVars, controlVars, callVars, dailyVars, signalVars, fetchVars, scheduleVars>>

\* One combination of the cycle: fetch_market_data, calculate_indicators,
\* generate_signals and the analysis record saved to BigQuery.  fetched:
\* whether Binance answers (fetch_market_data logs a failure and returns an
\* empty frame); saved: whether BigQuery takes the record
\* (save_daily_summary re-raises a failure).
DailyMonitorCombination ==
    /\ monitor_loop = "running"
    /\ idx \in 1..Len(trading_combinations)
    /\ \E fetched \in BOOLEAN, position \in Signals, saved \in BOOLEAN :
         LET combo    == trading_combinations[idx]
             request  == <<combo[1], interval_of(combo[3])>>
             signals  == generate_signals(combo[2], position)
             analysis_record ==
                 [ timestamp |-> cycle, symbol |-> combo[1], strategy |-> combo[2],
                   timeframe |-> combo[3],
                   signal |-> IF signals.position > 0 THEN "BUY"
                              ELSE IF signals.position < 0 THEN "SELL" ELSE "NEUTRAL",
                   trading_enabled |-> last_check.result,
                   run_name |-> "monitorBot" ]
         IN  IF ~fetched
             THEN /\ errors' = Append(errors, [origin |-> "fetch_market_data",
                                               error |-> "Exception"])
                  /\ idx' = idx + 1
                  /\ UNCHANGED <<klines, daily_summary, monitor_loop>>
             ELSE IF signals.empty
             THEN /\ klines' = Append(klines, request)
                  /\ errors' = errors \o signals.logged
                  /\ idx' = idx + 1
                  /\ UNCHANGED <<daily_summary, monitor_loop>>
             ELSE IF saved
             THEN /\ klines' = Append(klines, request)
                  /\ daily_summary' = Append(daily_summary, analysis_record)
                  /\ idx' = idx + 1
                  /\ UNCHANGED <<errors, monitor_loop>>
             ELSE /\ klines' = Append(klines, request)
                  /\ errors' = Append(errors, [origin |-> "run_daily_monitor",
                                               error |-> "save_daily_summary"])
                  /\ idx' = continue_after_error(idx).idx
                  /\ monitor_loop' = continue_after_error(idx).monitor_loop
                  /\ UNCHANGED daily_summary
    /\ UNCHANGED trading_combinations
    /\ UNCHANGED <<trades, trades_to_upload, all_trades, candle>>
    /\ UNCHANGED <<open_positions, balance, bq_trades, cycle, cycle_time, last_call>>
    /\ UNCHANGED <<gateVars, testVars, riskVars, streakVars, controlVars, callVars, signalVars, fetchVars, scheduleVars>>

\* The end of the cycle: display_performance_summary and the sleep until the
\* next check.  raised: whether the summary raises (a print on a closed
\* stream); the except of the while loop logs it and sleeps a minute.
DailyMonitorCycleEnd ==
    /\ monitor_loop = "running"
    /\ idx = Len(trading_combinations) + 1
    /\ idx' = 0
    /\ \E raised \in BOOLEAN :
         IF raised
         THEN /\ errors' = Append(errors, [origin |-> "run_daily_monitor",
                                           error |-> "Exception"])
              /\ now' = now + RETRY_SLEEP
         ELSE /\ errors' = errors
              /\ now' = now + MONITOR_INTERVAL
    /\ UNCHANGED <<automation_state, polls, last_check, daily_totals, EMERGENCY_OVERRIDE, STREAK_AUTOMATION_ENABLED>>
    /\ UNCHANGED <<trades, trades_to_upload, all_trades, candle>>
    /\ UNCHANGED <<open_positions, balance, bq_trades, cycle, cycle_time, last_call>>
    /\ UNCHANGED <<testVars, riskVars, streakVars, controlVars, callVars, dailyVars, signalVars, fetchVars, scheduleVars>>

\* "except KeyboardInterrupt: ... break": the user stops the monitor.
DailyMonitorInterrupt ==
    /\ monitor_loop = "running"
    /\ monitor_loop' = "stopped"
    /\ UNCHANGED <<trading_combinations, klines, daily_summary>>
    /\ UNCHANGED <<ledgerVars, gateVars, testVars, backtestVars, riskVars, streakVars, controlVars, callVars, signalVars, fetchVars, scheduleVars>>

DailyMonitorNext ==
    \/ DailyMonitorCycleStart
    \/ DailyMonitorCombination
    \/ DailyMonitorCycleEnd
    \/ DailyMonitorInterrupt

----------------------------------------------------------------------------
(* scripts/bots/monitorBot.py: MonitorBot.run_active_trading *)

\* "while self.is_running" of run_active_trading: the flag is not looked at.
active_loop_goes_on(requested) == TRUE

\* run_active_trading: trading_interval has passed and a cycle starts; the
\* trading cycle runs if the streak gate of BotCore allows it.
ActiveTradingCycleStart ==
    /\ monitor_loop = "running"
    /\ active_loop_goes_on(shutdown_requested)
    /\ idx = 0
    /\ cycle < MaxCycles
    /\ cycle' = cycle + 1
    /\ \E db_up \in BOOLEAN :
         LET c == check_streak_conditions(automation_state, now,
                                          query_results(daily_totals, now, db_up),
                                          EMERGENCY_OVERRIDE, STREAK_AUTOMATION_ENABLED)
         IN  /\ automation_state' = c.state
             /\ last_check' = check_record(last_check, automation_state, now, c)
             /\ idx' = IF c.result THEN 1 ELSE 0
    /\ polls' = polls + 1
    /\ UNCHANGED <<now, daily_totals, EMERGENCY_OVERRIDE, STREAK_AUTOMATION_ENABLED>>
    /\ UNCHANGED <<open_positions, balance, bq_trades, cycle_time, last_call>>
    /\ UNCHANGED <<testVars, backtestVars, riskVars, streakVars, controlVars, callVars, dailyVars, signalVars, fetchVars, scheduleVars>>

\* One combination of MonitorBot._run_trading_cycle.  fetched: whether
\* Binance answers; has_signals: whether the strategy gives a non-empty
\* frame.  "latest_signal in ['BUY', 'SELL']" compares a row of the frame
\* with a string and raises ValueError, which the except of the loop logs:
\* the cycle logs no trade.
ActiveTradingCombination ==
    /\ monitor_loop = "running"
    /\ idx \in 1..Len(Combos)
    /\ idx' = idx + 1
    /\ \E fetched \in BOOLEAN, has_signals \in BOOLEAN :
         LET signals == generate_signals(Combos[idx][2], 0)
         IN  IF ~fetched
             THEN /\ errors' = Append(errors, [origin |-> "fetch_market_data",
                                               error |-> "Exception"])
                  /\ klines' = klines
             ELSE /\ klines' = Append(klines, <<Combos[idx][1], interval_of(Combos[idx][3])>>)
                  /\ errors' = IF signals.empty \/ ~has_signals THEN errors \o signals.logged
                               ELSE Append(errors, [origin |-> "_run_trading_cycle",
                                                    error |-> "ValueError"])
    /\ UNCHANGED <<trading_combinations, daily_summary, monitor_loop>>
    /\ UNCHANGED <<trades, trades_to_upload, all_trades, candle>>
    /\ UNCHANGED <<open_positions, balance, bq_trades, cycle, cycle_time, last_call>>
    /\ UNCHANGED <<gateVars, testVars, riskVars, streakVars, controlVars, callVars, signalVars, fetchVars, scheduleVars>>

\* The loop over the combinations is over; the bot sleeps until the next cycle.
ActiveTradingCycleEnd ==
    /\ monitor_loop = "running"
    /\ idx = Len(Combos) + 1
    /\ idx' = 0
    /\ now' = now + 300
    /\ UNCHANGED <<automation_state, polls, last_check, daily_totals, EMERGENCY_OVERRIDE, STREAK_AUTOMATION_ENABLED>>
    /\ UNCHANGED <<open_positions, balance, bq_trades, cycle, cycle_time, last_call>>
    /\ UNCHANGED <<testVars, backtestVars, riskVars, streakVars, controlVars, callVars, dailyVars, signalVars, fetchVars, scheduleVars>>

ActiveTradingNext ==
    \/ ActiveTradingCycleStart
    \/ ActiveTradingCombination
    \/ ActiveTradingCycleEnd
    \/ SignalHandler

----------------------------------------------------------------------------
(* scripts/backTestBot.py: Backtester.fetch_historical_data and the data
   pass of run_backtest; utils: batch_upload_trades, _execute_with_retry *)

\* Chunks fetch_historical_data asks for.
MaxChunks == 2

\* fetch_historical_data: max_retries, retry_delay (seconds)
max_retries == 3

retry_delay == 2

\* config/postgres_config.py
MAX_RETRIES == 3

RETRY_DELAY == 1

\* What one call of client.get_historical_klines may do.
FetchOutcomes == {"klines", "empty", "error"}

\* "for retry in range(max_retries)" of fetch_historical_data for one chunk.
\* outcomes[retry + 1] is what attempt number retry does; klines end the loop,
\* an empty answer or an exception sleeps retry_delay * (retry + 1) and tries
\* again unless it was the last attempt.
RECURSIVE fetch_chunk(_, _, _)
fetch_chunk(outcomes, retry, delays) ==
    IF retry >= max_retries
    THEN [fetched |-> FALSE, attempts |-> retry, delays |-> delays]
    ELSE IF outcomes[retry + 1] = "klines"
    THEN [fetched |-> TRUE, attempts |-> retry + 1, delays |-> delays]
    ELSE IF retry < max_retries - 1
    THEN fetch_chunk(outcomes, retry + 1, Append(delays, retry_delay * (retry + 1)))
    ELSE [fetched |-> FALSE, attempts |-> retry + 1, delays |-> delays]

\* What one execution of a query may do.
QueryOutcomes == {"ok", "OperationalError", "Exception"}

\* PostgresDatabase._execute_with_retry: psycopg2.OperationalError is tried
\* again after RETRY_DELAY * (attempt + 1) until the last attempt, which
\* re-raises; any other exception is raised at once.
RECURSIVE execute_with_retry(_, _, _)
execute_with_retry(outcomes, attempt, delays) ==
    IF outcomes[attempt + 1] = "ok"
    THEN [result |-> "ok", error |-> "None", attempts |-> attempt + 1, delays |-> delays]
    ELSE IF outcomes[attempt + 1] = "OperationalError"
    THEN IF attempt < MAX_RETRIES - 1
         THEN execute_with_retry(outcomes, attempt + 1,
                                 Append(delays, RETRY_DELAY * (attempt + 1)))
         ELSE [result |-> "gave_up", error |-> "transient",
               attempts |-> attempt + 1, delays |-> delays]
    ELSE [result |-> "gave_up", error |-> "other",
          attempts |-> attempt + 1, delays |-> delays]

\* batch_upload_trades of BigQueryDatabase (the same in TradingDatabase and
\* PostgresDatabase) for one batch: the upload is attempted once; an
\* exception is logged and the loop continues with the next batch.
batch_upload_trades(outcomes) ==
    IF outcomes[1] = "ok"
    THEN [result |-> "ok", error |-> "None", attempts |-> 1, delays |-> <<>>]
    ELSE [result |-> "gave_up",
          error |-> IF outcomes[1] = "OperationalError" THEN "transient" ELSE "other",
          attempts |-> 1, delays |-> <<>>]

\* The record of a finished operation.
logged(operation, r) ==
    [operation |-> operation, result |-> r.result, error |-> r.error,
     attempts |-> r.attempts, delays |-> r.delays]

NoOperation ==
    [operation |-> "None", result |-> "ok", error |-> "None", attempts |-> 0, delays |-> <<>>]

FetchIdle ==
    /\ fetching = [combo |-> 0, chunk |-> 0, all_klines |-> <<>>, exhausted |-> {}]
    /\ symbol_data = <<>>
    /\ processed = <<>>
    /\ last_operation = NoOperation

\* run_backtest starts its data pass with the first combination's first chunk.
FetchStart ==
    /\ fetching = [combo |-> 1, chunk |-> 1, all_klines |-> <<>>, exhausted |-> {}]
    /\ symbol_data = <<>>
    /\ processed = <<>>
    /\ last_operation = NoOperation

\* One pass of "while current_start >= self.start_date": the chunk is fetched
\* with its retries; whether it came or not, the loop moves to the next chunk.
FetchChunk ==
    /\ fetching.combo \in DOMAIN Combos
    /\ fetching.chunk \in 1..MaxChunks
    /\ \E outcomes \in [1..max_retries -> FetchOutcomes] :
         LET r == fetch_chunk(outcomes, 0, <<>>)
         IN  /\ fetching' = [fetching EXCEPT
                   !.chunk = @ + 1,
                   !.all_klines = IF r.fetched THEN Append(@, fetching.chunk) ELSE @,
                   !.exhausted = IF r.fetched THEN @ ELSE @ \cup {fetching.chunk}]
             /\ last_operation' =
                   logged("fetch_historical_data",
                          [result |-> IF r.fetched THEN "ok" ELSE "gave_up",
                           error |-> IF r.fetched THEN "None" ELSE "transient",
                           attempts |-> r.attempts, delays |-> r.delays])
    /\ UNCHANGED <<symbol_data, processed>>
    /\ UNCHANGED <<ledgerVars, gateVars, testVars, backtestVars, riskVars, streakVars, controlVars, callVars, dailyVars, signalVars, scheduleVars>>

\* The chunks are over: fetch_historical_data returns None if no chunk gave
\* klines or fewer than 100 candles came (enough says which), else the frame
\* built from the chunks that came; run_backtest stores it and fetches for
\* the next combination.
FetchReturn ==
    /\ fetching.combo \in DOMAIN Combos
    /\ fetching.chunk = MaxChunks + 1
    /\ \E enough \in BOOLEAN :
         symbol_data' = Append(symbol_data,
             IF fetching.all_klines = <<>> \/ ~enough
             THEN [data |-> None, exhausted |-> fetching.exhausted]
             ELSE [data |-> <<fetching.all_klines>>, exhausted |-> fetching.exhausted])
    /\ fetching' = [combo |-> fetching.combo + 1, chunk |-> 1,
                    all_klines |-> <<>>, exhausted |-> {}]
    /\ UNCHANGED <<processed, last_operation>>
    /\ UNCHANGED <<ledgerVars, gateVars, testVars, backtestVars, riskVars, streakVars, controlVars, callVars, dailyVars, signalVars, scheduleVars>>

\* The loop of run_backtest over the trading pairs after the data pass:
\* "if raw_data is None: ... continue", else _process_combination.
ProcessCombination ==
    /\ fetching.combo = Len(Combos) + 1
    /\ Len(processed) < Len(Combos)
    /\ LET k == Len(processed) + 1
       IN  processed' = Append(processed,
               [combo |-> k,
                outcome |-> IF symbol_data[k].data = None THEN "skipped" ELSE "processed"])
    /\ UNCHANGED <<fetching, symbol_data, last_operation>>
    /\ UNCHANGED <<ledgerVars, gateVars, testVars, backtestVars, riskVars, streakVars, controlVars, callVars, dailyVars, signalVars, scheduleVars>>

\* A caller hands one batch of trades to batch_upload_trades.
BatchUpload ==
    /\ \E outcomes \in [1..MAX_RETRIES -> QueryOutcomes] :
         last_operation' = logged("batch_upload_trades", batch_upload_trades(outcomes))
    /\ UNCHANGED <<fetching, symbol_data, processed>>
    /\ UNCHANGED <<ledgerVars, gateVars, testVars, backtestVars, riskVars, streakVars, controlVars, callVars, dailyVars, signalVars, scheduleVars>>

\* A caller runs one query through _execute_with_retry.
ExecuteWithRetry ==
    /\ \E outcomes \in [1..MAX_RETRIES -> QueryOutcomes] :
         last_operation' = logged("_execute_with_retry", execute_with_retry(outcomes, 0, <<>>))
    /\ UNCHANGED <<fetching, symbol_data, processed>>
    /\ UNCHANGED <<ledgerVars, gateVars, testVars, backtestVars, riskVars, streakVars, controlVars, callVars, dailyVars, signalVars, scheduleVars>>

FetchNext ==
    \/ FetchChunk
    \/ FetchReturn
    \/ ProcessCombination
    \/ BatchUpload
    \/ ExecuteWithRetry

----------------------------------------------------------------------------
(* scripts/bots/monitorBot.py, scripts/bots/profitStreakBot.py: the times
   at which the live loops run their cycles *)

DAY == 24 * 60 * 60

\* "time.sleep(10)" at the end of each pass of the while loop
POLL_SLEEP == 10

\* The timeframes of timeframe_checks.
Timeframes == {"15m", "30m", "1h", "2h", "4h", "1d"}

\* Wall-clock times (seconds since midnight) at which a bot is started.
StartTimes == {0, 7 * 60}

\* config['interval'] of the schedules '15m' and '1h'; 900 is also the
\* default trading_interval of run_profit_streak_trading.
Intervals == {15 * 60, 60 * 60}

\* How long after "interval" seconds the pass of the loop comes that sees
\* "current_time - self.last_check_time >= interval": at once, or a sleep later.
Drifts == {0, POLL_SLEEP}

ScheduleIdle ==
    /\ clock = 0
    /\ schedule_interval = 0
    /\ active_timeframes = {}

\* "self.last_check_time = time.time()" when the loop is entered.
ScheduleStart ==
    /\ clock \in StartTimes
    /\ schedule_interval \in Intervals
    /\ active_timeframes = {}

\* The next cycle of run_schedule_monitor / run_profit_streak_trading: it
\* starts at the first pass of the loop that finds the interval elapsed since
\* the last cycle, and timeframe_checks is computed from the hour and minute
\* of that moment.  The date plays no part in timeframe_checks, so the clock
\* is kept within one day.
ScheduleCycle ==
    /\ \E drift \in Drifts :
         LET current_time == (clock + schedule_interval + drift) % DAY
         IN  /\ clock' = current_time
             /\ cycle_time' = hour_minute(current_time)
             /\ active_timeframes' =
                    {tf \in Timeframes : timeframe_checks(tf, hour_minute(current_time))}
    /\ cycle' = IF cycle < MaxCycles THEN cycle + 1 ELSE cycle
    /\ UNCHANGED schedule_interval
    /\ UNCHANGED <<open_positions, balance, bq_trades, idx, last_call>>
    /\ UNCHANGED <<gateVars, testVars, backtestVars, riskVars, streakVars, controlVars, callVars, dailyVars, signalVars, fetchVars>>

ScheduleNext == ScheduleCycle

----------------------------------------------------------------------------
(* The programs *)

\* MonitorBot.run_schedule_monitor, with the configuration as shipped.
MonitorInit == ScheduleIdle /\ FetchIdle /\ SignalInit /\ DailyIdle /\ CallInit /\ ControlInit /\ StreakInit /\ RiskInit /\ LedgerInit /\ GateInit /\ ConfigShipped /\ TestIdle /\ BacktestInit
SpecMonitor == MonitorInit /\ [][MonitorNext]_vars

\* A bot polling the gate of its BotCore, under any configuration.
PollingInit == ScheduleIdle /\ FetchIdle /\ SignalInit /\ DailyIdle /\ CallInit /\ ControlInit /\ StreakInit /\ RiskInit /\ LedgerInit /\ GateInit /\ ConfigAny /\ TestIdle /\ BacktestInit
SpecGate == PollingInit /\ [][GateNext]_vars

\* testTradingBot.run_bot, with the override on or off.
TestBotInit ==
    /\ ScheduleIdle /\ FetchIdle /\ SignalInit /\ DailyIdle /\ CallInit /\ ControlInit /\ StreakInit /\ RiskInit /\ LedgerInit /\ GateInit /\ TestInit /\ BacktestInit
    /\ interval \in {900, 24 * 60 * 60}
    /\ EMERGENCY_OVERRIDE \in BOOLEAN
    /\ STREAK_AUTOMATION_ENABLED = TRUE
    /\ daily_totals \in BotHistories
SpecTestBot == TestBotInit /\ [][TestBotNext]_vars

\* scripts/backTestBot.py: Backtester.run_backtest
BacktesterInit == ScheduleIdle /\ FetchIdle /\ SignalInit /\ DailyIdle /\ CallInit /\ ControlInit /\ StreakInit /\ RiskInit /\ LedgerInit /\ GateInit /\ ConfigShipped /\ TestIdle /\ BacktestInit
SpecBacktester == BacktesterInit /\ [][BacktestNext]_vars

\* backTestBot.py: Backtester.run_backtest on one symbol
RunBacktestInit ==
    /\ ScheduleIdle /\ FetchIdle /\ SignalInit /\ DailyIdle /\ CallInit /\ ControlInit /\ StreakInit /\ RiskInit /\ LedgerInit /\ GateInit /\ ConfigShipped /\ BacktestInit
    /\ trade_history = <<>>
    /\ interval = 0
    /\ last_sell = None
SpecRunBacktest == RunBacktestInit /\ [][RunBacktestNext]_vars

\* ProfitStreakBot.run_profit_streak_trading
ProfitStreakInit ==
    ScheduleIdle /\ FetchIdle /\ SignalInit /\ DailyIdle /\ CallInit /\ ControlInit /\ StreakInit /\ RiskInit /\ LedgerInit /\ GateInit /\ ConfigShipped /\ TestIdle /\ BacktestInit
SpecProfitStreak == ProfitStreakInit /\ [][ProfitStreakNext]_vars

\* update_drawdown under any sequence of balance updates
DrawdownInit ==
    ScheduleIdle /\ FetchIdle /\ SignalInit /\ DailyIdle /\ CallInit /\ ControlInit /\ StreakInit /\ RiskInit /\ LedgerInit /\ GateInit /\ ConfigShipped /\ TestIdle /\ BacktestInit
SpecDrawdown == DrawdownInit /\ [][DrawdownNext]_vars

\* the position sizers under any call
SizerInit ==
    ScheduleIdle /\ FetchIdle /\ SignalInit /\ DailyIdle /\ CallInit /\ ControlInit /\ StreakInit /\ RiskInit /\ LedgerInit /\ GateInit /\ ConfigShipped /\ TestIdle /\ BacktestInit
SpecSizer == SizerInit /\ [][SizerNext]_vars

\* the stop-loss / take-profit checks under any call
RiskCheckInit ==
    ScheduleIdle /\ FetchIdle /\ SignalInit /\ DailyIdle /\ CallInit /\ ControlInit /\ StreakInit /\ RiskInit /\ LedgerInit /\ GateInit /\ ConfigShipped /\ TestIdle /\ BacktestInit
SpecRisk == RiskCheckInit /\ [][RiskNext]_vars

\* run_bot_system.monitor_and_control
ControlSystemInit ==
    ScheduleIdle /\ FetchIdle /\ SignalInit /\ DailyIdle /\ CallInit /\ ControlInit /\ StreakInit /\ RiskInit /\ LedgerInit /\ GateInit /\ ConfigAny /\ TestIdle /\ BacktestInit
SpecControl == ControlSystemInit /\ [][ControlNext]_vars

\* SmartBacktest.run_smart_backtest
SmartInit ==
    ScheduleIdle /\ FetchIdle /\ SignalInit /\ DailyIdle /\ CallInit /\ ControlInit /\ StreakInit /\ RiskInit /\ LedgerInit /\ GateInit /\ ConfigShipped /\ TestIdle /\ BacktestInit
SpecSmart == SmartInit /\ [][SmartNext]_vars

\* BotCore.run_daily_monitor, on any of the configurations
DailyMonitorInit ==
    ScheduleIdle /\ FetchIdle /\ SignalInit /\ DailyConfigured /\ CallInit /\ ControlInit /\ StreakInit /\ RiskInit /\ LedgerInit /\ GateInit /\ ConfigShipped /\ TestIdle /\ BacktestInit
SpecDailyMonitor == DailyMonitorInit /\ [][DailyMonitorNext]_vars

\* MonitorBot.run_active_trading ("--mode trading")
ActiveTradingInit ==
    ScheduleIdle /\ FetchIdle /\ SignalInit /\ DailyIdle /\ CallInit /\ ControlInit /\ StreakInit /\ RiskInit /\ LedgerInit /\ GateInit /\ ConfigShipped /\ TestIdle /\ BacktestInit
SpecActiveTrading == ActiveTradingInit /\ [][ActiveTradingNext]_vars

\* Backtester.run_backtest: the data pass and the loop over the pairs
FetchInit ==
    ScheduleIdle /\ FetchStart /\ SignalInit /\ DailyIdle /\ CallInit /\ ControlInit /\ StreakInit /\ RiskInit /\ LedgerInit /\ GateInit /\ ConfigShipped /\ TestIdle /\ BacktestInit
SpecFetch == FetchInit /\ [][FetchNext]_vars

\* The cycles of run_schedule_monitor and run_profit_streak_trading in time;
\* the loops keep running, so a further cycle always comes.
ScheduleInit ==
    ScheduleStart /\ FetchIdle /\ SignalInit /\ DailyIdle /\ CallInit /\ ControlInit /\ StreakInit /\ RiskInit /\ LedgerInit /\ GateInit /\ ConfigShipped /\ TestIdle /\ BacktestInit
SpecSchedule == ScheduleInit /\ [][ScheduleNext]_vars /\ WF_vars(ScheduleNext)

----------------------------------------------------------------------------
(* Properties of the position ledger of the live bots *)

\* The (symbol, strategy, timeframe) key a position was opened under.
KeyOf(position) == <<position.symbol, position.strategy, position.timeframe>>

\* The exit condition of an open position at a price, read off the levels
\* the position carries (price level units).
Hit(position, price) ==
    IF position.type = "LONG"
    THEN price * 1000 <= position.stop_loss \/ price * 1000 >= position.take_profit
    ELSE price * 1000 >= position.stop_loss \/ price * 1000 <= position.take_profit

\* Indices of the evaluated list whose exit condition holds at the call's price.
Matching(call) == {i \in DOMAIN call.evaluated : Hit(call.evaluated[i], call.price)}

C3_CallTouchesOwnKeyOnly ==
    last_call.combo # None =>
        /\ \A i \in DOMAIN last_call.evaluated : KeyOf(last_call.evaluated[i]) = last_call.combo
        /\ \A i \in DOMAIN last_call.closed : KeyOf(last_call.closed[i]) = last_call.combo

\* The levels execute_trade derives from the entry price when the bots open
\* a position.
LevelsSetAtOpen(position) ==
    IF position.type = "LONG"
    THEN /\ position.stop_loss = position.entry_price * (1000 - STOP_LOSS_PM)
         /\ position.take_profit = position.entry_price * (1000 + TAKE_PROFIT_PM)
    ELSE /\ position.stop_loss = position.entry_price * (1000 + STOP_LOSS_PM)
         /\ position.take_profit = position.entry_price * (1000 - TAKE_PROFIT_PM)

\* C15: a position carries the stop-loss and take-profit levels derived when
\* it was opened for as long as it exists - open, under evaluation, and
\* closed - and every closure decision is the one those levels give: a
\* position is closed by a call exactly if the call's price is at or beyond
\* one of its levels, for the reason that names the level.
C15_LevelsFixedAtOpenDecide ==
    /\ \A i \in DOMAIN open_positions : LevelsSetAtOpen(open_positions[i])
    /\ last_call.combo # None =>
        /\ \A i \in DOMAIN last_call.evaluated : LevelsSetAtOpen(last_call.evaluated[i])
        /\ \A i \in DOMAIN open_positions : ~Hit(open_positions[i], last_call.price)
        /\ \A i \in DOMAIN last_call.closed :
             LET c == last_call.closed[i]
                 price == last_call.price * 1000
             IN  /\ LevelsSetAtOpen(c)
                 /\ Hit(c, last_call.price)
                 /\ c.exit_reason = "stop_loss" <=>
                        IF c.type = "LONG" THEN price <= c.stop_loss ELSE price >= c.stop_loss
                 /\ c.exit_reason = "take_profit" <=>
                        IF c.type = "LONG" THEN price >= c.take_profit ELSE price <= c.take_profit

\* A Long position opened in an earlier cycle is closed, in a later one, at
\* the take-profit level it has carried since it was opened.
C15_ClosedLaterAtStoredTakeProfit ==
    \E i \in DOMAIN last_call.closed :
        /\ last_call.closed[i].type = "LONG"
        /\ last_call.closed[i].exit_reason = "take_profit"
        /\ last_call.closed[i].exit_time[1] > last_call.closed[i].entry_time
        /\ last_call.price * 1000 >= last_call.closed[i].take_profit

----------------------------------------------------------------------------
(* Properties of testTradingBot *)

\* The BUYs still open before the trade at index, oldest first, by first-in
\* first-out matching of the SELLs before it.
OpenBefore(index) ==
    calculate_strategy_performance(SubSeq(trade_history.trades, 1, index - 1),
                                   1, <<>>, 0).open_positions

\* C2 as the spec states it (the FIFO law): with two Long positions open under
\* one key, opened at P1 and then at P2, a close is booked against the
\* position opened first, at P1.
C2_CloseTakesOldestLong ==
    (last_sell # None /\ last_sell[1].buy # None /\ Len(OpenBefore(last_sell[1].index)) >= 2)
        => last_sell[1].buy[1] = Head(OpenBefore(last_sell[1].index))

\* C6: a BUY is recorded only in a cycle whose poll of the gate found trading
\* enabled - no position is opened while the gate is Disabled.
C6_OpensOnlyWhileEnabled ==
    [][ Len(trade_history'.trades) > Len(trade_history.trades)
        /\ trade_history'.trades[Len(trade_history'.trades)].type = "BUY"
            => automation_state'.trading_enabled /\ last_check'.result ]_vars

\* The gate is Disabled after the bot has traded, and the last cycle, polled
\* Disabled, recorded nothing.
C6_DisabledAfterTrading ==
    /\ ~automation_state.trading_enabled
    /\ ~last_check.result
    /\ \E i \in DOMAIN trade_history.trades : trade_history.trades[i].type = "BUY"

----------------------------------------------------------------------------
(* Properties of the Backtester of scripts/backTestBot.py *)

\* Gross profit of a closed position, and the fees the spec charges on it:
\* (entry_price * size + exit_price * size) * fee_rate, in mils.
GrossProfit(t) ==
    IF t.type = "LONG" THEN (t.exit_price[1] - t.entry_price) * t.position_size
    ELSE (t.entry_price - t.exit_price[1]) * t.position_size
TotalFees(t) ==
    ((t.entry_price * t.position_size + t.exit_price[1] * t.position_size) * FEE_RATE_PM) \div 1000

\* C4 as the spec states it: the profit recorded on every closed position is
\* the net profit, gross profit minus the entry and exit fees (to the mil, the
\* unit the model rounds to).
C4_ClosedProfitIsNetOfFees ==
    \A i \in DOMAIN last_call.closed :
        LET t == last_call.closed[i]
        IN  /\ is_number(t.profit)
            /\ t.profit[1] - (GrossProfit(t) - TotalFees(t)) \in {-1, 0, 1}

----------------------------------------------------------------------------
(* Properties of the Backtester of backTestBot.py *)

\* C5 as the spec states it (the circuit breaker): while the drawdown of the
\* current balance from the peak exceeds max_drawdown_limit, no step opens a
\* new position.
C5_NoOpenBeyondDrawdownLimit ==
    [][ current_drawdown(peak_balance, current_balance) > MAX_DRAWDOWN_LIMIT_PM
            => ~(backtest_run.position = 0 /\ backtest_run'.position = 1) ]_vars

----------------------------------------------------------------------------
(* Properties of the streak gate *)

\* C8: when the gate is evaluated, the days asked about are the
\* REQUIRED_POSITIVE_DAYS days before today, positive_days is the number of
\* them whose profit is strictly greater than MIN_PROFIT_THRESHOLD, and the
\* new state (and the value returned) is Enabled if and only if
\* positive_days >= REQUIRED_POSITIVE_DAYS.
C8_PositiveDaysDecideTheState ==
    last_check.queried # <<>> =>
        LET today == date(last_check.time)
            positive_days ==
                Cardinality({i \in 1..REQUIRED_POSITIVE_DAYS :
                                last_check.daily_profits[i] > MIN_PROFIT_THRESHOLD})
        IN  /\ Len(last_check.queried) = REQUIRED_POSITIVE_DAYS
            /\ Len(last_check.daily_profits) = REQUIRED_POSITIVE_DAYS
            /\ \A i \in 1..REQUIRED_POSITIVE_DAYS :
                 /\ last_check.queried[i] = today - i
                 /\ last_check.daily_profits[i] \in {daily_totals[today - i], 0}
            /\ automation_state.current_streak = positive_days
            /\ automation_state.trading_enabled <=> positive_days >= REQUIRED_POSITIVE_DAYS
            /\ last_check.result <=> positive_days >= REQUIRED_POSITIVE_DAYS

\* An evaluation that found four positive days and one day of loss, and
\* turned an Enabled gate Disabled.
C8_FourPositiveDaysDisable ==
    /\ last_check.queried # <<>>
    /\ Cardinality({i \in 1..REQUIRED_POSITIVE_DAYS : last_check.daily_profits[i] = 10}) = 4
    /\ \E i \in 1..REQUIRED_POSITIVE_DAYS : last_check.daily_profits[i] = -5
    /\ last_check.before[1].trading_enabled
    /\ ~automation_state.trading_enabled
    /\ automation_state.current_streak = 4

\* C9 as the spec states it: with the emergency override on, a gate that has
\* been consulted is Enabled and has not asked BigQuery anything - the gate
\* of BotCore (check_streak_conditions) and the gate of ProfitStreakBot
\* (check_profit_streak) alike.
C9_OverrideEnablesWithoutQuery ==
    EMERGENCY_OVERRIDE =>
        /\ polls > 0 => /\ automation_state.trading_enabled
                        /\ last_check.result
                        /\ last_check.queried = <<>>
        /\ last_daily_check # None => /\ last_streak_check.streak_achieved
                                      /\ ~last_streak_check.queried

\* C10 as the spec states it: a poll made less than AUTOMATION_CHECK_INTERVAL
\* after the latest evaluation asks BigQuery nothing and returns the result
\* of that evaluation.
C10_PollWithinIntervalIsCached ==
    [][ (/\ polls' = polls + 1
         /\ last_check.evaluation # <<>>
         /\ now - last_check.evaluation[1].time < AUTOMATION_CHECK_INTERVAL)
        => /\ last_check'.queried = <<>>
           /\ last_check'.result = last_check.evaluation[1].result ]_vars

----------------------------------------------------------------------------
(* Properties of ProfitStreakBot *)

\* C7 as the spec states it: every cycle evaluates the open positions for
\* closure, whatever the streak gate says - a cycle that starts with a
\* position open goes on to the loop that updates the open positions.
C7_EveryCycleEvaluatesOpenPositions ==
    [][ cycle' = cycle + 1 /\ open_positions # <<>> => idx' = 1 ]_vars

----------------------------------------------------------------------------
(* Properties of the drawdown tracking *)

\* C11: max_drawdown never decreases: no balance update lowers it.
C11_MaxDrawdownNeverDecreases ==
    [][ max_drawdown' >= max_drawdown ]_vars

\* The balance has fallen from a peak and then risen to a new peak: the
\* current drawdown is 0 while max_drawdown keeps the earlier fall.
C11_RecoveredAfterDrawdown ==
    /\ max_drawdown > 0
    /\ current_balance = peak_balance
    /\ peak_balance > INITIAL_BALANCE * 1000
    /\ current_drawdown(peak_balance, current_balance) = 0

----------------------------------------------------------------------------
(* Properties of the position sizers *)

\* C12 as the spec states it: the sizers of the backtest and of the live bots
\* return a positive quantity for a positive price and a positive balance,
\* and no quantity at all (a failure) when the price or the balance is zero
\* or negative.
C12_SizerRejectsInvalidInput ==
    sizing.sizer \in {"backtest_utils", "Backtester"} =>
        IF sizing.price > 0 /\ sizing.balance > 0
        THEN sizing.outcome.quantity # None /\ sizing.outcome.quantity[1] > 0
        ELSE sizing.outcome.quantity = None

\* The minimum quantity of the symbol's asset class, in thousandths of a
\* unit, None for a symbol of no listed class.
minimum_quantity(symbol) ==
    CASE symbol = "SOLUSDT" -> <<100>>
      [] symbol = "ETHUSDT" -> <<10>>
      [] symbol = "BTCUSDT" -> <<1>>
      [] OTHER -> None

\* C13 as the spec states it: a quantity returned by a sizer for a positive
\* price is never below the minimum quantity of the symbol's asset class.
C13_QuantityNeverBelowMinimum ==
    (/\ sizing.sizer \in {"backtest_utils", "TradeExecutor"}
     /\ sizing.price > 0
     /\ sizing.outcome.quantity # None
     /\ minimum_quantity(sizing.symbol) # None)
    => sizing.outcome.quantity[1] >= minimum_quantity(sizing.symbol)[1]

----------------------------------------------------------------------------
(* Properties of the stop-loss / take-profit checks *)

\* C14: a Long position is closed for stop loss exactly when
\* current_price <= entry * (1 - sl_pct) and for take profit exactly when
\* current_price >= entry * (1 + tp_pct); a Short position exactly when
\* current_price >= entry * (1 + sl_pct), respectively
\* current_price <= entry * (1 - tp_pct).
C14_LevelsDecideTheClose ==
    evaluation.outcome # None =>
        LET entry == evaluation.position[1].entry_price
            price == evaluation.current_price * 1000
            sl    == evaluation.stop_loss_pct
            tp    == evaluation.take_profit_pct
            out   == evaluation.outcome[1]
        IN  IF evaluation.position[1].type = "LONG"
            THEN /\ out.stop_loss <=> price <= entry * (1000 - sl)
                 /\ out.take_profit <=> price >= entry * (1000 + tp)
            ELSE /\ out.stop_loss <=> price >= entry * (1000 + sl)
                 /\ out.take_profit <=> price <= entry * (1000 - tp)

\* A Long position entered at 200 is checked with the default levels at
\* exactly its stop loss, 197, and the stop loss closes it.
C14_LongAtItsStopLoss ==
    /\ evaluation.function = "backtest_utils"
    /\ evaluation.outcome # None
    /\ evaluation.position[1].type = "LONG"
    /\ evaluation.position[1].entry_price = 200
    /\ evaluation.current_price = 197
    /\ evaluation.outcome[1].stop_loss
    /\ ~evaluation.outcome[1].take_profit

----------------------------------------------------------------------------
(* Properties of SmartBacktest *)

\* C16: every close records one exit_reason that names the condition that
\* triggered it: a stop loss, a take profit, the minimum-profit exit (which
\* is evaluated after the two levels) or the end of the run.
C16_ExitReasonNamesTheTrigger ==
    last_call.combo # None =>
        \A k \in DOMAIN last_call.closed :
            LET f == last_call.flags[k]
                trigger == IF last_call.at = "end" THEN "EndOfRun"
                           ELSE IF f.stop_loss_hit THEN "StopLoss"
                           ELSE IF f.take_profit_hit THEN "TakeProfit"
                           ELSE "MinProfitExit"
                named == CASE trigger = "StopLoss" -> "stop_loss"
                           [] trigger = "TakeProfit" -> "take_profit"
                           [] trigger = "MinProfitExit" -> "min_profit"
                           [] trigger = "EndOfRun" -> "end_of_run"
            IN  last_call.closed[k].exit_reason = named

----------------------------------------------------------------------------
(* Properties of the concurrency cap *)

\* The open positions under one (symbol, strategy, timeframe) key.
OpenUnder(key) == {i \in DOMAIN open_positions : KeyOf(open_positions[i]) = key}

\* C17: no key ever holds more open positions than the concurrency cap of 3;
\* an entry signal on a key that is at its cap adds no position.
C17_OpenPositionsWithinCap ==
    \A i \in DOMAIN open_positions :
        Cardinality(OpenUnder(KeyOf(open_positions[i]))) <= MAX_CONCURRENT_POSITIONS

----------------------------------------------------------------------------
(* Properties of the end of a backtest pass *)

\* C18: when the pass of Backtester.run_backtest over a combination ends
\* (its last row is processed and the combination's trades join
\* all_trades), every position that is still open is closed into the
\* results with the end of the run as its reason: none is left open or
\* dropped.
C18_EndOfPassClosesEveryOpenPosition ==
    [][(candle = MaxCandles + 1 /\ candle' = 0) =>
          \A i \in DOMAIN open_positions :
              \E k \in DOMAIN all_trades' :
                  /\ KeyOf(all_trades'[k]) = KeyOf(open_positions[i])
                  /\ all_trades'[k].entry_time = open_positions[i].entry_time
                  /\ all_trades'[k].exit_price # None
                  /\ all_trades'[k].exit_reason = "end_of_run"]_vars

----------------------------------------------------------------------------
(* Properties of BotCore.run_daily_monitor *)

\* Whether every configured combination names a strategy and a timeframe
\* that the program knows.
ConfigurationIsValid ==
    \A i \in DOMAIN trading_combinations :
        /\ trading_combinations[i][2] \in strategy_map
        /\ trading_combinations[i][3] \in interval_map_keys

\* C19: a configuration with an unknown strategy name or an unknown
\* timeframe is rejected at startup: with such a configuration no candle is
\* ever fetched, no analysis is recorded and no position is opened.
C19_UnknownConfigurationRejectedAtStartup ==
    ~ConfigurationIsValid =>
        /\ klines = <<>>
        /\ daily_summary = <<>>
        /\ open_positions = <<>>

\* C20: an error of a combination or of a cycle is logged and never ends the
\* monitor: the step that logs it leaves the loop running and takes it to
\* the next combination, or to the next cycle after the cycle's last step;
\* only the user's interrupt stops the loop.
C20_ErrorsNeverStopTheLoop ==
    [][/\ Len(errors') > Len(errors) =>
            /\ monitor_loop' = "running"
            /\ errors' = Append(errors, errors'[Len(errors')])
            /\ \/ idx \in 1..Len(trading_combinations) /\ idx' = idx + 1
               \/ idx = Len(trading_combinations) + 1 /\ idx' = 0
       /\ monitor_loop' = "stopped" => errors' = errors]_vars

\* A run in which the first combination of the first cycle failed to save
\* its record, and the second combination and the second cycle were still
\* analysed and recorded.
C20_RecordedAfterAnError ==
    /\ monitor_loop = "running"
    /\ cycle = 2
    /\ Len(errors) >= 2
    /\ errors[1] = [origin |-> "run_daily_monitor", error |-> "save_daily_summary"]
    /\ errors[2] = [origin |-> "run_daily_monitor", error |-> "Exception"]
    /\ \E i, j \in DOMAIN daily_summary :
           /\ daily_summary[i].timestamp = 1 /\ daily_summary[i].symbol = "ETHUSDT"
           /\ daily_summary[j].timestamp = 2 /\ daily_summary[j].symbol = "BTCUSDT"

----------------------------------------------------------------------------
(* Properties of the shutdown of the live loops *)

\* C21: once the shutdown signal has arrived no further cycle is started,
\* and the loop is only ever left between two cycles, never inside one.
C21_NoTickAfterShutdown ==
    [][/\ shutdown_requested => cycle' = cycle
       /\ (monitor_loop = "running" /\ monitor_loop' = "stopped") => idx = 0]_vars

----------------------------------------------------------------------------
(* Properties of the order of closes and entries on a candle *)

\* C22: on each candle of a combination the closure evaluation runs before
\* the entry attempt: the positions it evaluates are positions that were
\* open before that candle, never the one the candle's own signal opens.
C22_ClosesBeforeEntry ==
    [][last_call' # last_call =>
         \A i \in 1..Len(last_call'.evaluated) :
             \E j \in 1..Len(open_positions) :
                 open_positions[j] = last_call'.evaluated[i]]_vars

----------------------------------------------------------------------------
(* Properties of the timeframe schedule of the live cycle *)

\* The open positions of one key, in list order.
PositionsUnder(positions, key) == SelectSeq(positions, LAMBDA p : KeyOf(p) = key)

\* C23: a combination is processed only when its timeframe is due at the
\* cycle's time, and a combination whose timeframe is not due has no
\* position opened or closed under its key in that cycle.
C23_OnlyDueCombinationsTouched ==
    [][/\ last_call' # last_call => timeframe_checks(last_call'.combo[3], cycle_time)
       /\ \A k \in DOMAIN Combos :
             ~timeframe_checks(Combos[k][3], cycle_time) =>
                 PositionsUnder(open_positions', Combos[k]) =
                     PositionsUnder(open_positions, Combos[k])]_vars

----------------------------------------------------------------------------
(* Properties of the buffer of closed trades of the Backtester *)

----------------------------------------------------------------------------
(* Properties of the retries of fetches and flushes *)

\* The delays grow by one factor from each attempt to the next.
GrowsMultiplicatively(delays) ==
    \E factor \in 2..4 :
        \A i \in 1..(Len(delays) - 1) : delays[i + 1] = factor * delays[i]

\* C25: a failing candle fetch and a failing batch flush are tried again
\* with bounded backoff: never more than 3 attempts, a delay between two
\* attempts that grows multiplicatively, and an operation that fails
\* transiently is given up only when the 3 attempts are used up.
C25_RetriedWithBoundedBackoff ==
    /\ last_operation.attempts <= 3
    /\ Len(last_operation.delays) = last_operation.attempts - 1 \/ last_operation.attempts = 0
    /\ GrowsMultiplicatively(last_operation.delays)
    /\ (last_operation.result = "gave_up" /\ last_operation.error = "transient") =>
           last_operation.attempts = 3

\* C25 for the candle fetch alone.
C25_FetchRetriedWithBoundedBackoff ==
    last_operation.operation = "fetch_historical_data" => C25_RetriedWithBoundedBackoff

\* A fetch given up after its third attempt, with the two delays in between.
C25_FetchGivenUpAfterThree ==
    /\ last_operation.operation = "fetch_historical_data"
    /\ last_operation.result = "gave_up"
    /\ last_operation.delays = <<retry_delay, 2 * retry_delay>>

\* C26: a combination one of whose candle fetches failed after its retries
\* is skipped as a whole; the loop goes on to the other combinations.
C26_ExhaustedFetchSkipsCombination ==
    \A i \in DOMAIN processed :
        symbol_data[processed[i].combo].exhausted # {} => processed[i].outcome = "skipped"

----------------------------------------------------------------------------
(* Properties of the recording of closed positions *)

\* C27: every position a call removes from the open list by closing it is
\* recorded as a closed trade with persistence, whether or not the save
\* raised an error.
C27_NoClosedPositionLost ==
    [][last_call' # last_call =>
         \A i \in DOMAIN last_call'.closed :
             \E j \in DOMAIN bq_trades' :
                 bq_trades'[j] = trade_data(last_call'.closed[i], bq_trades'[j].run_name)]_vars

----------------------------------------------------------------------------
(* Properties of the daily streak check of ProfitStreakBot *)

\* C28: the streak is checked on the first cycle of a calendar day and on no
\* other, and every later cycle of the day decides as the cycle before it
\* did, hence as the day's check did: trading runs on it if and only if the
\* check reported an achieved streak.
C28_LaterCyclesFollowTheDailyCheck ==
    [][cycle' # cycle =>
         /\ last_streak_check'.queried <=> (last_daily_check' # last_daily_check)
         /\ ~last_streak_check'.queried =>
                last_streak_check'.streak_achieved = last_streak_check.streak_achieved]_vars

----------------------------------------------------------------------------
(* Properties of the times of the live cycles *)

\* C29: whatever the start time and the cycle interval, for each of the
\* timeframes 30m, 1h, 2h, 4h and 1d some cycle eventually comes at a time
\* when the timeframe is due, so its combinations are eventually processed.
C29_EveryTimeframeEventuallyDue ==
    \A tf \in {"30m", "1h", "2h", "4h", "1d"} : <>(tf \in active_timeframes)

----------------------------------------------------------------------------
(* Properties of the streak gate during a persistence outage *)

\* C30: in an evaluation of the gate, a day whose trade query failed (its
\* profit is not the total persistence holds for it) has the profit 0, is
\* not counted as positive, and the evaluation returns normally with the
\* gate Disabled.
C30_FailedQueryDisablesGate ==
    last_check.queried # <<>> =>
        \A i \in DOMAIN last_check.queried :
            last_check.daily_profits[i] # daily_totals[last_check.queried[i]] =>
                /\ last_check.daily_profits[i] = 0
                /\ automation_state.current_streak < REQUIRED_POSITIVE_DAYS
                /\ ~last_check.result
                /\ ~automation_state.trading_enabled

\* An Enabled gate evaluated during an outage after days that were all
\* profitable: every profit is taken as 0 and the gate is Disabled.
C30_OutageDisabledAnEnabledGate ==
    /\ last_check.queried # <<>>
    /\ \A i \in DOMAIN last_check.queried :
          /\ daily_totals[last_check.queried[i]] > MIN_PROFIT_THRESHOLD
          /\ last_check.daily_profits[i] = 0
    /\ last_check.before[1].trading_enabled
    /\ ~automation_state.trading_enabled

====
